---------------------------- MODULE Spec2Model ----------------------------
(***************************************************************************)
(* Core-banking ledger: accounts, the transaction posting / reversal state *)
(* machine, reconciliation, bulk batches and concurrent balance updates.   *)
(* Money is counted in whole currency units.                               *)
(***************************************************************************)
EXTENDS Integers, Sequences, FiniteSets, TLC

VARIABLES
    balance,            \* Account.balance, per account
    available_balance,  \* Account.available_balance (stored computed field)
    hold_amount,        \* Account.hold_amount
    allow_overdraft,    \* Account.allow_overdraft
    overdraft_limit,    \* Account.overdraft_limit
    acc_state,          \* Account.state
    opening,            \* balance each account was created with
    txns,               \* core_banking.transaction table, id = index
    recon_ids,          \* TransactionReconciliation.transaction_ids
    lastOp,             \* the last call made by a caller and how it ended
    batch,              \* the BulkTransaction record and its handler's position
    lines,              \* core_banking.bulk.transaction.line rows of the batch
    workers,            \* concurrent callers: operation, position, locals
    orders,             \* core_banking.standing.order table, id = index
    today,              \* fields.Date.today(), counted in days
    loan,               \* the Loan record and its payment schedule rows
    fixed_deposit,      \* the FixedDeposit record
    scheduled           \* core_banking.scheduled.transaction table, id = index

vars == <<balance, available_balance, hold_amount, allow_overdraft,
          overdraft_limit, acc_state, opening, txns, recon_ids, lastOp,
          batch, lines, workers, orders, today, loan, fixed_deposit,
          scheduled>>

\* The loan, the fixed deposit and the scheduled transactions.
productVars == <<loan, fixed_deposit, scheduled>>

\* Standing orders, the calendar and the products: untouched by the ledger,
\* the transaction engine and the batch processor.
instrumentVars == <<orders, today, productVars>>

accountVars == <<hold_amount, allow_overdraft, overdraft_limit, acc_state, opening>>

-----------------------------------------------------------------------------
(* Bounds *)

MaxTxns == 3          \* transaction rows in the transaction-engine runs
MaxLedgerTxns == 2    \* transaction rows in the ledger runs
MaxLines == 3         \* lines of a batch
MaxWorkers == 2       \* callers running at the same time
MaxRows == 2          \* rows of an imported file
MaxOrders == 2        \* standing orders
MaxDay == 2           \* days that pass in a scheduler run
MaxDate == 800        \* last date an order is re-armed to
MaxScheduled == 2     \* scheduled transactions

-----------------------------------------------------------------------------
(* Values *)

Accts == {"A", "B"}
NoAcct == "none"
NoTxn == 0

\* Amounts a caller may pass to deposit / withdraw, invalid ones included.
CallAmounts == {-50, 0, 50, 100, 150}
\* Signed amounts of caller-created transactions (CHECK(amount != 0)).
SignedAmounts == {-100, -50, 50}
\* Policies an account can be created with.
HoldAmounts == {0, 50}
OverdraftLimits == {0, 50}
OpeningBalances == {0, 100}

Abs(x) == IF x < 0 THEN -x ELSE x
Max(x, y) == IF x >= y THEN x ELSE y

-----------------------------------------------------------------------------
(* Account Ledger *)

\* Account._compute_available_balance for one account.
ComputeAvailableBalance_AlwaysOverdraft(bal, hold, allow, limit) ==
    bal + limit - hold

ComputeAvailableBalance(bal, hold, allow, limit) ==
    IF allow THEN bal + limit - hold
    ELSE Max(0, bal - hold)

\* The stored field after a write of balance on the accounts in `written`
\* (api.depends('balance', ...) recomputes those records only).
Recompute(avail, bal, written) ==
    [a \in Accts |->
        IF a \in written
        THEN ComputeAvailableBalance(bal[a], hold_amount[a], allow_overdraft[a],
                                     overdraft_limit[a])
        ELSE avail[a]]

\* The store the ledger operations act on.
Store(bal, avail, ts) == [balance |-> bal, available_balance |-> avail, txns |-> ts]

CurrentStore == Store(balance, available_balance, txns)

Call(op, acct, txn, amount, result, before) ==
    [op |-> op, acct |-> acct, txn |-> txn, amount |-> amount,
     result |-> result, before |-> before]

NoCall == Call("none", NoAcct, NoTxn, 0, "ok", 0)

\* A core_banking.transaction record.
Txn(type, acct, dest, amount, state, reversed_entry, reference) ==
    [transaction_type |-> type, account_id |-> acct,
     destination_account_id |-> dest, amount |-> amount, state |-> state,
     reversed_entry_id |-> reversed_entry, reversal_id |-> NoTxn,
     posted_by |-> FALSE, reference |-> reference]

\* Transaction.write: a write of state 'posted' stamps the poster.
WriteState(t, state) ==
    IF state = "posted"
    THEN [t EXCEPT !.state = state, !.posted_by = TRUE]
    ELSE [t EXCEPT !.state = state]

\* withdraw's funds check: the raise condition.
InsufficientFunds_OffByOne(amount, available) == amount >= available

InsufficientFunds(amount, available) == amount > available

\* Account.deposit on store s: the result and the store it leaves.
DepositOn(s, a, amount) ==
    IF amount <= 0
    THEN [result |-> "InvalidAmount", store |-> s]
    ELSE LET ts  == Append(s.txns, Txn("deposit", a, NoAcct, amount, "posted", NoTxn, 0))
             bal == [s.balance EXCEPT ![a] = @ + amount]
         IN  [result |-> "ok",
              store  |-> Store(bal, Recompute(s.available_balance, bal, {a}), ts)]

\* Account.withdraw on store s.
WithdrawOn_UnsignedAmount(s, a, amount) ==
    IF amount <= 0
    THEN [result |-> "InvalidAmount", store |-> s]
    ELSE IF InsufficientFunds(amount, s.available_balance[a])
    THEN [result |-> "InsufficientFunds", store |-> s]
    ELSE LET ts  == Append(s.txns, Txn("withdrawal", a, NoAcct, amount, "posted", NoTxn, 0))
             bal == [s.balance EXCEPT ![a] = @ - amount]
         IN  [result |-> "ok",
              store  |-> Store(bal, Recompute(s.available_balance, bal, {a}), ts)]

WithdrawOn(s, a, amount) ==
    IF amount <= 0
    THEN [result |-> "InvalidAmount", store |-> s]
    ELSE IF InsufficientFunds(amount, s.available_balance[a])
    THEN [result |-> "InsufficientFunds", store |-> s]
    ELSE LET ts  == Append(s.txns, Txn("withdrawal", a, NoAcct, -amount, "posted", NoTxn, 0))
             bal == [s.balance EXCEPT ![a] = @ - amount]
         IN  [result |-> "ok",
              store  |-> Store(bal, Recompute(s.available_balance, bal, {a}), ts)]

-----------------------------------------------------------------------------
(* Transaction Engine *)

Postable_AlsoPosted(t) == t.state \in {"draft", "pending", "posted"}

Postable(t) == t.state \in {"draft", "pending"}

\* The balances after action_post applied transaction t (lines 128-133).
PostBalances(bal, t) ==
    LET b1 == [bal EXCEPT ![t.account_id] = @ + t.amount]
    IN  IF t.transaction_type = "transfer" /\ t.destination_account_id # NoAcct
        THEN [b1 EXCEPT ![t.destination_account_id] = @ + Abs(t.amount)]
        ELSE b1

PostWritten(t) ==
    IF t.transaction_type = "transfer" /\ t.destination_account_id # NoAcct
    THEN {t.account_id, t.destination_account_id}
    ELSE {t.account_id}

\* Transaction.action_post on the one record i of store s.
PostOn_MutateBeforeCheck(s, i) ==
    LET t == s.txns[i]
        bal == PostBalances(s.balance, t)
        avail == Recompute(s.available_balance, bal, PostWritten(t))
    IN  IF ~Postable(t)
        THEN [result |-> "noop", store |-> s]
        ELSE IF t.amount < 0 /\ Abs(t.amount) > s.available_balance[t.account_id]
        THEN [result |-> "InsufficientFunds", store |-> Store(bal, avail, s.txns)]
        ELSE [result |-> "ok",
              store |-> Store(bal, avail,
                              [s.txns EXCEPT ![i] = WriteState(t, "posted")])]

PostOn_CheckBalance(s, i) ==
    LET t == s.txns[i]
    IN  IF ~Postable(t)
        THEN [result |-> "noop", store |-> s]
        ELSE IF t.amount < 0 /\ Abs(t.amount) > s.balance[t.account_id]
        THEN [result |-> "InsufficientFunds", store |-> s]
        ELSE LET bal == PostBalances(s.balance, t)
             IN  [result |-> "ok",
                  store |-> Store(bal,
                                  Recompute(s.available_balance, bal, PostWritten(t)),
                                  [s.txns EXCEPT ![i] = WriteState(t, "posted")])]

PostOn(s, i) ==
    LET t == s.txns[i]
    IN  IF ~Postable(t)
        THEN [result |-> "noop", store |-> s]
        ELSE IF t.amount < 0 /\ Abs(t.amount) > s.available_balance[t.account_id]
        THEN [result |-> "InsufficientFunds", store |-> s]
        ELSE LET bal == PostBalances(s.balance, t)
             IN  [result |-> "ok",
                  store |-> Store(bal,
                                  Recompute(s.available_balance, bal, PostWritten(t)),
                                  [s.txns EXCEPT ![i] = WriteState(t, "posted")])]

Reversible(t) == t.state = "posted" /\ t.reversal_id = NoTxn

\* The link and state written after the reversal was created (lines 172-177).
LinkReversal_OnReversal(ts, orig, rev) ==
    [ts EXCEPT ![rev].reversal_id = rev, ![rev].state = "reversed"]

LinkReversal(ts, orig, rev) ==
    [ts EXCEPT ![orig].reversal_id = rev, ![orig].state = "reversed"]

\* Transaction.action_reverse on the one record i of store s.
ReverseOn(s, i) ==
    LET t == s.txns[i]
    IN  IF ~Reversible(t)
        THEN [result |-> "noop", store |-> s]
        ELSE LET rev == Len(s.txns) + 1
                 created == Store(s.balance, s.available_balance,
                                  Append(s.txns,
                                         Txn("reversal", t.account_id,
                                             t.destination_account_id, -t.amount,
                                             "posted", i, 0)))
                 posted == PostOn(created, rev).store
             IN  [result |-> "ok",
                  store |-> Store(posted.balance, posted.available_balance,
                                  LinkReversal(posted.txns, i, rev))]

\* Transaction.action_cancel on the one record i.
CancelOn_AnyState(s, i) ==
    [result |-> "ok",
     store |-> Store(s.balance, s.available_balance,
                     [s.txns EXCEPT ![i] = WriteState(@, "cancelled")])]

CancelOn(s, i) ==
    IF Postable(s.txns[i])
    THEN [result |-> "ok",
          store |-> Store(s.balance, s.available_balance,
                          [s.txns EXCEPT ![i] = WriteState(@, "cancelled")])]
    ELSE [result |-> "noop", store |-> s]

\* TransactionReconciliation.action_reconcile: write on all transaction_ids.
ReconcileOn(ts, ids) ==
    [i \in 1..Len(ts) |-> IF i \in ids THEN WriteState(ts[i], "reconciled") ELSE ts[i]]


\* Transaction.create: the table's CHECK(amount != 0) rejects a zero amount.
CreateOn(s, t) ==
    IF t.amount = 0
    THEN [result |-> "InvalidAmount", store |-> s]
    ELSE [result |-> "ok",
          store |-> Store(s.balance, s.available_balance, Append(s.txns, t))]

-----------------------------------------------------------------------------
(* Batch Processor *)

\* BulkTransaction._get_transaction_type
GetTransactionType(bulk_type) ==
    CASE bulk_type = "bulk_transfer"   -> "transfer"
      [] bulk_type = "salary_payment"  -> "deposit"
      [] bulk_type = "bulk_deposit"    -> "deposit"
      [] bulk_type = "bulk_withdrawal" -> "withdrawal"
      [] OTHER                         -> "other"

\* The amount of the transaction built for a line (line 163).
LineAmount(bulk_type, amount) ==
    IF bulk_type # "bulk_withdrawal" THEN amount ELSE -amount

\* The transaction action_process_batch builds for a line (lines 159-169).
LineTxn(bulk_type, line) ==
    Txn(GetTransactionType(bulk_type), line.account_id, line.destination_account_id,
        LineAmount(bulk_type, line.amount), "draft", NoTxn, line.reference)

\* The body of the loop for one line (lines 157-183): create, post, and the
\* except branch. Gives the store left behind and whether the line succeeded.
ProcessLineOn(s, bulk_type, line) ==
    LET c == CreateOn(s, LineTxn(bulk_type, line))
    IN  IF c.result # "ok"
        THEN [ok |-> FALSE, store |-> c.store]
        ELSE LET r == PostOn(c.store, Len(c.store.txns))
             IN  [ok |-> r.result = "ok", store |-> r.store]

\* The state check of action_process_batch (line 143).
Processable_AlsoDone(b) == b.state \in {"validated", "completed", "failed"}

Processable(b) == b.state = "validated"

\* Where the loop goes after line k of n (it catches the error and goes on).
AfterLine_AbortOnError(k, ok, n) == IF ok THEN k + 1 ELSE n + 1

AfterLine(k, ok, n) == k + 1

\* The batch state written after the loop (line 191).
BatchFinalState_AnySuccess(success_count, failed_count) ==
    IF success_count > 0 THEN "completed" ELSE "failed"

BatchFinalState(success_count, failed_count) ==
    IF failed_count = 0 THEN "completed" ELSE "failed"

-----------------------------------------------------------------------------
(* Recurring Scheduler *)

\* A date field that is not set (False).
NoDate == -1

\* A core_banking.standing.order record (lines 206-231), created in draft.
StandingOrder(source, destination, amount, frequency, next, end) ==
    [source_account_id |-> source, destination_account_id |-> destination,
     amount |-> amount, frequency |-> frequency, next_execution_date |-> next,
     end_date |-> end, state |-> "draft"]

\* The search domain of the cron (lines 253-259).
DueOrder_AnyState(o, day) ==
    /\ o.next_execution_date # NoDate /\ o.next_execution_date <= day
    /\ (o.end_date = NoDate \/ o.end_date >= day)

DueOrder(o, day) ==
    /\ o.state = "active"
    /\ o.next_execution_date # NoDate /\ o.next_execution_date <= day
    /\ (o.end_date = NoDate \/ o.end_date >= day)

\* _order = 'next_execution_date' (line 204); ids break ties.
OrderBefore(os, j, k) ==
    \/ os[j].next_execution_date < os[k].next_execution_date
    \/ os[j].next_execution_date = os[k].next_execution_date /\ j < k

RECURSIVE SortedOrders(_, _)
SortedOrders(os, ids) ==
    IF ids = {} THEN <<>>
    ELSE LET k == CHOOSE k \in ids : \A j \in ids \ {k} : OrderBefore(os, k, j)
         IN  <<k>> \o SortedOrders(os, ids \ {k})

\* due_orders: the ids of the due orders, in the order the search returns them.
DueOrders(os, day) == SortedOrders(os, {k \in 1..Len(os) : DueOrder(os[k], day)})

\* order.account_id.withdraw(order.amount, ...) (lines 264-268). A standing
\* order has the fields source_account_id and destination_account_id and no
\* field account_id: reading it raises AttributeError.
ExecuteOrderOn(s, o) ==
    IF "account_id" \notin DOMAIN o
    THEN [result |-> "AttributeError", store |-> s]
    ELSE WithdrawOn(s, o.account_id, o.amount)

\* The fixed day counts of _schedule_next_execution (lines 283-289).
FrequencyDelta(frequency) ==
    CASE frequency = "daily"     -> 1
      [] frequency = "weekly"    -> 7
      [] frequency = "monthly"   -> 30
      [] frequency = "quarterly" -> 90
      [] frequency = "yearly"    -> 365
      [] OTHER                   -> 30

\* StandingOrder._schedule_next_execution
ScheduleNextExecution(o) ==
    IF o.next_execution_date = NoDate THEN o
    ELSE [o EXCEPT !.next_execution_date = @ + FrequencyDelta(o.frequency)]

\* The body of the cron's loop for one order (lines 262-275): execute, then
\* re-arm; an exception is logged and leaves the order as it was.
OrderStep_AdvanceOnFailure(s, o) ==
    LET r == ExecuteOrderOn(s, o)
    IN  [ok |-> r.result = "ok", store |-> r.store, order |-> ScheduleNextExecution(o)]

OrderStep(s, o) ==
    LET r == ExecuteOrderOn(s, o)
    IN  IF r.result = "ok"
        THEN [ok |-> TRUE, store |-> r.store, order |-> ScheduleNextExecution(o)]
        ELSE [ok |-> FALSE, store |-> r.store, order |-> o]

\* The loop over the due orders (line 261): the store and the orders it
\* leaves, the orders it attempted and those whose execution failed.
RECURSIVE RunOrders(_, _, _)
RunOrders(s, os, due) ==
    IF due = <<>>
    THEN [store |-> s, orders |-> os, attempted |-> {}, failed |-> {}]
    ELSE LET k == Head(due)
             step == OrderStep(s, os[k])
             rest == RunOrders(step.store, [os EXCEPT ![k] = step.order], Tail(due))
         IN  [store |-> rest.store, orders |-> rest.orders,
              attempted |-> {k} \cup rest.attempted,
              failed |-> (IF step.ok THEN {} ELSE {k}) \cup rest.failed]

\* A core_banking.scheduled.transaction record as created (lines 239-274).
ScheduledTransaction(type, acct, dest, amount, scheduled_date, auto_process) ==
    [transaction_type |-> type, account_id |-> acct, destination_account_id |-> dest,
     amount |-> amount, scheduled_date |-> scheduled_date, auto_process |-> auto_process,
     state |-> "scheduled", transaction_id |-> NoTxn]

\* The amount of the transaction built for a scheduled transaction (line 295).
ScheduledAmount(st) ==
    IF st.transaction_type # "withdrawal" THEN st.amount ELSE -st.amount

\* ScheduledTransaction.action_process_now on record st: the transaction is
\* created in draft and posted; any exception writes state failed and is
\* raised again, and what was created before it stays.
ProcessNowOn_AnyState(s, st) ==
    LET c == CreateOn(s, Txn(st.transaction_type, st.account_id,
                             st.destination_account_id, ScheduledAmount(st),
                             "draft", NoTxn, 0))
        r == PostOn(c.store, Len(c.store.txns))
    IN  IF c.result # "ok"
        THEN [result |-> c.result, store |-> c.store,
              scheduled |-> [st EXCEPT !.state = "failed"]]
        ELSE IF r.result # "ok"
        THEN [result |-> r.result, store |-> r.store,
              scheduled |-> [st EXCEPT !.state = "failed"]]
        ELSE [result |-> "ok", store |-> r.store,
              scheduled |-> [st EXCEPT !.state = "processed",
                                       !.transaction_id = Len(r.store.txns)]]

ProcessNowOn(s, st) ==
    IF st.state # "scheduled"
    THEN [result |-> "InvalidState", store |-> s, scheduled |-> st]
    ELSE LET c == CreateOn(s, Txn(st.transaction_type, st.account_id,
                                  st.destination_account_id, ScheduledAmount(st),
                                  "draft", NoTxn, 0))
             r == PostOn(c.store, Len(c.store.txns))
         IN  IF c.result # "ok"
             THEN [result |-> c.result, store |-> c.store,
                   scheduled |-> [st EXCEPT !.state = "failed"]]
             ELSE IF r.result # "ok"
             THEN [result |-> r.result, store |-> r.store,
                   scheduled |-> [st EXCEPT !.state = "failed"]]
             ELSE [result |-> "ok", store |-> r.store,
                   scheduled |-> [st EXCEPT !.state = "processed",
                                            !.transaction_id = Len(r.store.txns)]]

\* The search domain of the scheduled-transaction cron (lines 322-326).
DueScheduled(st, now) ==
    st.state = "scheduled" /\ st.auto_process /\ st.scheduled_date <= now

\* The cron's loop (lines 328-336) over the due records from id k on: each is
\* processed; an exception writes state failed once more and the loop goes on.
RECURSIVE RunScheduled(_, _, _, _)
RunScheduled(s, sts, due, k) ==
    IF k > Len(sts) THEN [store |-> s, scheduled |-> sts]
    ELSE IF k \notin due THEN RunScheduled(s, sts, due, k + 1)
    ELSE LET r == ProcessNowOn(s, sts[k])
             written == IF r.result = "ok" THEN r.scheduled
                        ELSE [r.scheduled EXCEPT !.state = "failed"]
         IN  RunScheduled(r.store, [sts EXCEPT ![k] = written], due, k + 1)

-----------------------------------------------------------------------------
(* Money/Rate Utilities: amounts and rates of the calculators are exact      *)
(* fractions num/den in lowest terms, den > 0.                               *)

\* Greatest common divisor of two naturals, not both 0.
GCD(a, b) ==
    IF a = 0 THEN b
    ELSE IF b = 0 THEN a
    ELSE LET common == {g \in 1..(IF a < b THEN a ELSE b) : a % g = 0 /\ b % g = 0}
         IN  CHOOSE g \in common : \A h \in common : h <= g

Frac(n, d) ==
    LET g == GCD(Abs(n), Abs(d))
        sign == IF d < 0 THEN -1 ELSE 1
    IN  [num |-> sign * (n \div g), den |-> sign * (d \div g)]

FInt(n) == [num |-> n, den |-> 1]
FZero == FInt(0)
FOne == FInt(1)

FAdd(x, y) ==
    LET g == GCD(x.den, y.den)
    IN  Frac(x.num * (y.den \div g) + y.num * (x.den \div g), (x.den \div g) * y.den)

FSub(x, y) == FAdd(x, [num |-> -y.num, den |-> y.den])

FMul(x, y) ==
    LET g1 == GCD(Abs(x.num), y.den)
        g2 == GCD(Abs(y.num), x.den)
    IN  Frac((x.num \div g1) * (y.num \div g2), (x.den \div g2) * (y.den \div g1))

FDiv(x, y) == FMul(x, Frac(y.den, y.num))

FLess(x, y) ==
    LET g == GCD(x.den, y.den)
    IN  x.num * (y.den \div g) < y.num * (x.den \div g)

FPow(x, n) == [num |-> x.num ^ n, den |-> x.den ^ n]

-----------------------------------------------------------------------------
(* Amortization Calculator *)

\* Loan._compute_emi_amount; interest_rate is the annual rate in percent.
ComputeEmiAmount(principal_amount, interest_rate, term_months) ==
    IF principal_amount # 0 /\ interest_rate # 0 /\ term_months # 0
    THEN LET monthly_rate == Frac(interest_rate, 1200)
             growth == FPow(FAdd(FOne, monthly_rate), term_months)
             due == FMul(FInt(principal_amount), monthly_rate)
             factor == FDiv(growth, FSub(growth, FOne))
         IN  IF FLess(FZero, monthly_rate)
             THEN FMul(due, factor)
             ELSE Frac(principal_amount, term_months)
    ELSE FZero

\* A core_banking.loan record as created (lines 20-61): draft, not disbursed,
\* emi_amount computed, no payment rows.
Loan(principal_amount, interest_rate, term_months, payment_frequency) ==
    [principal_amount |-> principal_amount, interest_rate |-> interest_rate,
     term_months |-> term_months, payment_frequency |-> payment_frequency,
     state |-> "draft", disbursement_date |-> NoDate,
     emi_amount |-> ComputeEmiAmount(principal_amount, interest_rate, term_months),
     payment_ids |-> <<>>]

NoLoan == Loan(0, 0, 0, "monthly")

\* frequency_months (lines 152-157).
FrequencyMonths(payment_frequency) ==
    CASE payment_frequency = "monthly"     -> 1
      [] payment_frequency = "quarterly"   -> 3
      [] payment_frequency = "semi_annual" -> 6
      [] payment_frequency = "annual"      -> 12
      [] OTHER                             -> 1

\* One pass of the loop of generate_payment_schedule (lines 167-191): the row
\* of payment i and what the pass leaves for the next one.
ScheduleStep(l, i, outstanding_principal, payment_amount) ==
    LET frequency_months == FrequencyMonths(l.payment_frequency)
        monthly_interest_rate == Frac(l.interest_rate, 1200)
        interest_amount == FMul(FMul(outstanding_principal, monthly_interest_rate),
                                FInt(frequency_months))
        uncapped == FSub(payment_amount, interest_amount)
        capped == FLess(outstanding_principal, uncapped)
        principal_amount == IF capped THEN outstanding_principal ELSE uncapped
    IN  [row |-> [payment_number |-> i,
                  due_date |-> [from |-> l.disbursement_date,
                                months |-> i * frequency_months],
                  interest_amount |-> interest_amount,
                  principal_amount |-> principal_amount,
                  state |-> "pending"],
         payment_amount |-> IF capped THEN FAdd(principal_amount, interest_amount)
                            ELSE payment_amount,
         outstanding_principal |-> FSub(outstanding_principal, principal_amount)]

\* The loop of generate_payment_schedule from payment i on (lines 166-191).
RECURSIVE ScheduleRows(_, _, _, _, _)
ScheduleRows(l, i, payment_count, outstanding_principal, payment_amount) ==
    IF i > payment_count THEN <<>>
    ELSE LET step == ScheduleStep(l, i, outstanding_principal, payment_amount)
         IN  IF ~FLess(FZero, step.outstanding_principal) THEN <<step.row>>
             ELSE <<step.row>> \o ScheduleRows(l, i + 1, payment_count,
                                               step.outstanding_principal,
                                               step.payment_amount)

\* The payments list generate_payment_schedule builds (lines 151-191).
SchedulePayments_TermRows(l) ==
    LET frequency_months == FrequencyMonths(l.payment_frequency)
        payment_amount == IF l.payment_frequency # "monthly"
                          THEN FMul(l.emi_amount, FInt(frequency_months))
                          ELSE l.emi_amount
    IN  ScheduleRows(l, 1, l.term_months, FInt(l.principal_amount), payment_amount)

SchedulePayments(l) ==
    LET frequency_months == FrequencyMonths(l.payment_frequency)
        payment_amount == IF l.payment_frequency # "monthly"
                          THEN FMul(l.emi_amount, FInt(frequency_months))
                          ELSE l.emi_amount
    IN  ScheduleRows(l, 1, l.term_months \div frequency_months,
                     FInt(l.principal_amount), payment_amount)

\* `if self.payment_ids` (line 145).
HasSchedule_Never(l) == FALSE

HasSchedule(l) == l.payment_ids # <<>>

\* Loan.generate_payment_schedule on loan l: the result and the loan it leaves.
GenerateOn(l) ==
    IF HasSchedule(l)
    THEN [result |-> "ScheduleAlreadyExists", loan |-> l]
    ELSE IF l.disbursement_date = NoDate \/ l.term_months = 0 \/ l.emi_amount = FZero
    THEN [result |-> "MissingPrerequisite", loan |-> l]
    ELSE [result |-> "ok",
          loan |-> [l EXCEPT !.payment_ids = @ \o SchedulePayments(l)]]

\* LoanPayment._compute_total_amount
ComputeTotalAmount(p) ==
    FAdd(FAdd(p.principal_amount, p.interest_amount), p.penalty_amount)

\* LoanPayment._compute_outstanding_amount
ComputeOutstandingAmount(p) == FSub(p.total_amount, p.paid_amount)

\* LoanPayment._compute_days_overdue on day `day`: a pending or partial row
\* past its due date gets its days counted and, by the compute's own write,
\* the state overdue.
ComputeDaysOverdue(p, day) ==
    IF p.state \in {"pending", "partial"} /\ p.due_date < day
    THEN [p EXCEPT !.days_overdue = day - p.due_date, !.state = "overdue"]
    ELSE [p EXCEPT !.days_overdue = 0]

\* A core_banking.loan.payment row as created on day `day` (lines 14-38),
\* with its stored computed fields.
LoanPayment(payment_number, due_date, principal_amount, interest_amount, penalty_amount, day) ==
    LET vals == [payment_number |-> payment_number, due_date |-> due_date,
                 principal_amount |-> FInt(principal_amount),
                 interest_amount |-> FInt(interest_amount),
                 penalty_amount |-> FInt(penalty_amount),
                 paid_amount |-> FZero, state |-> "pending", days_overdue |-> 0]
        total_amount == ComputeTotalAmount(vals)
    IN  ComputeDaysOverdue(
            [payment_number |-> payment_number, due_date |-> due_date,
             principal_amount |-> vals.principal_amount,
             interest_amount |-> vals.interest_amount,
             penalty_amount |-> vals.penalty_amount,
             total_amount |-> total_amount,
             paid_amount |-> FZero, outstanding_amount |-> total_amount,
             state |-> "pending", days_overdue |-> 0], day)

\* The state action_record_payment writes after the payment (lines 101-105).
PaymentState(p) ==
    IF ~FLess(p.paid_amount, p.total_amount) THEN "paid"
    ELSE IF FLess(FZero, p.paid_amount) THEN "partial"
    ELSE p.state

\* LoanPayment.action_record_payment(amount) on row p, on day `day`, the
\* customer's first account being acct. The transaction is created posted;
\* a write of state with a new value has days_overdue computed again.
RecordPaymentOn(s, p, amount, acct, day) ==
    IF amount <= 0
    THEN [result |-> "InvalidAmount", store |-> s, payment |-> p]
    ELSE IF FLess(p.outstanding_amount, FInt(amount))
    THEN [result |-> "ExceedsOutstanding", store |-> s, payment |-> p]
    ELSE LET created == Store(s.balance, s.available_balance,
                              Append(s.txns, Txn("payment", acct, NoAcct, -amount,
                                                 "posted", NoTxn, 0)))
             paid == [p EXCEPT !.paid_amount = FAdd(@, FInt(amount))]
             recomputed == [paid EXCEPT !.outstanding_amount = ComputeOutstandingAmount(paid)]
             written == [recomputed EXCEPT !.state = PaymentState(recomputed)]
         IN  [result |-> "ok", store |-> created,
              payment |-> IF written.state # p.state
                          THEN ComputeDaysOverdue(written, day)
                          ELSE written]

-----------------------------------------------------------------------------
(* Accrual Calculator and the fixed deposit *)

\* An amount that is a whole number of currency units, as the ledger counts it.
Units(x) == x.num \div x.den

\* compounding_periods (lines 90-94).
CompoundingPeriods(interest_compounding) ==
    CASE interest_compounding = "monthly"   -> 12
      [] interest_compounding = "quarterly" -> 4
      [] interest_compounding = "annual"    -> 1
      [] OTHER                              -> 4

\* FixedDeposit._compute_maturity_amount; the term is a whole number of
\* compounding periods.
ComputeMaturityAmount(principal_amount, interest_rate, term_months, interest_compounding) ==
    IF principal_amount # 0 /\ interest_rate # 0 /\ term_months # 0
    THEN LET principal == FInt(principal_amount)
             rate == Frac(interest_rate, 100)
         IN  IF interest_compounding = "simple"
             THEN LET interest == FDiv(FMul(FMul(principal, rate), FInt(term_months)),
                                       FInt(12))
                  IN  FAdd(principal, interest)
             ELSE LET compounding_periods == CompoundingPeriods(interest_compounding)
                      compound_rate == FAdd(FOne, FDiv(rate, FInt(compounding_periods)))
                      periods == (compounding_periods * term_months) \div 12
                  IN  FMul(principal, FPow(compound_rate, periods))
    ELSE FZero

\* FixedDeposit._compute_accrued_interest for a deposit in `state`,
\* days_elapsed days after its deposit date.
ComputeAccruedInterest(state, principal_amount, interest_rate, interest_compounding, days_elapsed) ==
    IF state = "active" /\ days_elapsed > 0
    THEN LET principal == FInt(principal_amount)
             annual_rate == Frac(interest_rate, 100)
         IN  IF interest_compounding = "simple"
             THEN FDiv(FMul(FMul(principal, annual_rate), FInt(days_elapsed)), FInt(365))
             ELSE LET daily_rate == FDiv(annual_rate, FInt(365))
                  IN  FMul(principal, FSub(FPow(FAdd(FOne, daily_rate), days_elapsed), FOne))
    ELSE FZero

\* A core_banking.fixed.deposit record as created (lines 14-66): draft, dated
\* today, with its stored computed fields. The accrued interest is computed
\* then and depends on no field an operation writes.
FixedDeposit(account_id, principal_amount, interest_rate, term_months, interest_compounding, allow_early_withdrawal, early_withdrawal_penalty_rate) ==
    LET accrued_interest == ComputeAccruedInterest("draft", principal_amount,
                                                   interest_rate, interest_compounding, 0)
    IN  [account_id |-> account_id, principal_amount |-> principal_amount,
         interest_rate |-> interest_rate, term_months |-> term_months,
         interest_compounding |-> interest_compounding,
         maturity_amount |-> ComputeMaturityAmount(principal_amount, interest_rate,
                                                   term_months, interest_compounding),
         accrued_interest |-> accrued_interest,
         current_value |-> FAdd(FInt(principal_amount), accrued_interest),
         state |-> "draft",
         allow_early_withdrawal |-> allow_early_withdrawal,
         early_withdrawal_penalty_rate |-> early_withdrawal_penalty_rate,
         certificate_id |-> FALSE]

NoDeposit == FixedDeposit(NoAcct, 0, 0, 0, "quarterly", TRUE, 1)

\* What an operation of the deposit returns: how it ended, the store and the
\* deposit it leaves, and the amounts of an early withdrawal.
DepositReturn(result, s, d, gross_amount, penalty, net_amount) ==
    [result |-> result, store |-> s, deposit |-> d, gross_amount |-> gross_amount,
     penalty |-> penalty, net_amount |-> net_amount]

DepositRaise(result, s, d) == DepositReturn(result, s, d, FZero, FZero, FZero)

\* FixedDeposit.action_activate with generate_certificate.
ActivateDepositOn(s, d) ==
    DepositRaise("ok", s, [d EXCEPT !.state = "active", !.certificate_id = TRUE])

\* FixedDeposit.action_mature
MatureOn(s, d) ==
    IF d.state # "active" THEN DepositRaise("InvalidState", s, d)
    ELSE LET r == DepositOn(s, d.account_id, Units(d.maturity_amount))
         IN  IF r.result # "ok" THEN DepositRaise(r.result, s, d)
             ELSE DepositRaise("ok", r.store, [d EXCEPT !.state = "matured"])

\* FixedDeposit.action_withdraw_early; withdrawal_amount 0 stands for None
\* (`withdrawal_amount or self.current_value` takes both the same way).
WithdrawEarlyOn_CreditGross(s, d, withdrawal_amount) ==
    IF ~d.allow_early_withdrawal THEN DepositRaise("NotAllowed", s, d)
    ELSE IF d.state # "active" THEN DepositRaise("InvalidState", s, d)
    ELSE LET amount == IF withdrawal_amount # 0 THEN FInt(withdrawal_amount)
                       ELSE d.current_value
             penalty == FDiv(FMul(amount, FInt(d.early_withdrawal_penalty_rate)),
                             FInt(100))
             net_amount == FSub(amount, penalty)
             r == DepositOn(s, d.account_id, Units(amount))
         IN  IF r.result # "ok" THEN DepositRaise(r.result, s, d)
             ELSE DepositReturn("ok", r.store, [d EXCEPT !.state = "withdrawn"],
                                amount, penalty, net_amount)

WithdrawEarlyOn(s, d, withdrawal_amount) ==
    IF ~d.allow_early_withdrawal THEN DepositRaise("NotAllowed", s, d)
    ELSE IF d.state # "active" THEN DepositRaise("InvalidState", s, d)
    ELSE LET amount == IF withdrawal_amount # 0 THEN FInt(withdrawal_amount)
                       ELSE d.current_value
             penalty == FDiv(FMul(amount, FInt(d.early_withdrawal_penalty_rate)),
                             FInt(100))
             net_amount == FSub(amount, penalty)
             r == DepositOn(s, d.account_id, Units(net_amount))
         IN  IF r.result # "ok" THEN DepositRaise(r.result, s, d)
             ELSE DepositReturn("ok", r.store, [d EXCEPT !.state = "withdrawn"],
                                amount, penalty, net_amount)

-----------------------------------------------------------------------------
(* State after construction *)

\* Account A is created with a hold and an overdraft policy, B with the field
\* defaults (account.py lines 35-50); both are activated and empty.
PolicyAccounts ==
    /\ \E h \in HoldAmounts, l \in OverdraftLimits, o \in BOOLEAN :
          /\ hold_amount = [a \in Accts |-> IF a = "A" THEN h ELSE 0]
          /\ overdraft_limit = [a \in Accts |-> IF a = "A" THEN l ELSE 0]
          /\ allow_overdraft = [a \in Accts |-> IF a = "A" THEN o ELSE FALSE]
    /\ balance = [a \in Accts |-> 0]
    /\ opening = balance
    /\ acc_state = [a \in Accts |-> "active"]
    /\ available_balance =
          [a \in Accts |-> ComputeAvailableBalance(balance[a], hold_amount[a],
                                                   allow_overdraft[a], overdraft_limit[a])]

\* Both accounts have the default policy; A is created with an opening balance
\* drawn from `openings`.
FundedAccounts(openings) ==
    /\ hold_amount = [a \in Accts |-> 0]
    /\ overdraft_limit = [a \in Accts |-> 0]
    /\ allow_overdraft = [a \in Accts |-> FALSE]
    /\ \E b \in openings : balance = [a \in Accts |-> IF a = "A" THEN b ELSE 0]
    /\ opening = balance
    /\ acc_state = [a \in Accts |-> "active"]
    /\ available_balance =
          [a \in Accts |-> ComputeAvailableBalance(balance[a], hold_amount[a],
                                                   allow_overdraft[a], overdraft_limit[a])]

NoBatch ==
    [transaction_type |-> "bulk_deposit", state |-> "draft", success_count |-> 0,
     failed_count |-> 0, processed_count |-> 0, cursor |-> 0,
     loc_success |-> 0, loc_failed |-> 0]

IdleEngine == txns = <<>> /\ recon_ids = {} /\ lastOp = NoCall
IdleBatch == batch = NoBatch /\ lines = <<>>
IdleWorkers == workers = <<>>
IdleInstruments ==
    /\ orders = <<>> /\ today = 0 /\ loan = NoLoan /\ fixed_deposit = NoDeposit
    /\ scheduled = <<>>

-----------------------------------------------------------------------------
(* Calls of the ledger and of the transaction engine, one caller at a time *)

\* What lastOp records of a call on record i of the transaction table. A call
\* that returns without touching the record is recorded by name and outcome.
TxnCall(op, i, result) ==
    IF result = "noop"
    THEN Call(op, NoAcct, NoTxn, 0, "noop", 0)
    ELSE Call(op, txns[i].account_id, i, txns[i].amount, result,
              balance[txns[i].account_id])

Apply(r, call) ==
    /\ balance' = r.store.balance
    /\ available_balance' = r.store.available_balance
    /\ txns' = r.store.txns
    /\ lastOp' = call
    /\ UNCHANGED <<accountVars, recon_ids, batch, lines, workers, instrumentVars>>

Deposit(a, amount) ==
    LET r == DepositOn(CurrentStore, a, amount)
    IN  Apply(r, Call("deposit", a, NoTxn, amount, r.result, balance[a]))

Withdraw(a, amount) ==
    LET r == WithdrawOn(CurrentStore, a, amount)
    IN  Apply(r, Call("withdraw", a, NoTxn, amount, r.result, balance[a]))

\* A caller creates a transaction (Transaction.create), not yet posted.
CreateTransaction(type, a, dest, amount, state) ==
    /\ txns' = Append(txns, Txn(type, a, dest, amount, state, NoTxn, 0))
    /\ lastOp' = Call("create", a, Len(txns) + 1, amount, "ok", balance[a])
    /\ UNCHANGED <<balance, available_balance, accountVars, recon_ids, batch,
                   lines, workers, instrumentVars>>

ActionPost(i) ==
    LET r == PostOn(CurrentStore, i)
    IN  Apply(r, TxnCall("action_post", i, r.result))

ActionReverse(i) ==
    LET r == ReverseOn(CurrentStore, i)
    IN  Apply(r, TxnCall("action_reverse", i, r.result))

ActionCancel(i) ==
    LET r == CancelOn(CurrentStore, i)
    IN  Apply(r, TxnCall("action_cancel", i, r.result))

\* A user adds a transaction to the reconciliation; the field's domain offers
\* posted transactions only (transaction.py line 222).
SelectForReconciliation(i) ==
    /\ txns[i].state = "posted"
    /\ i \notin recon_ids
    /\ recon_ids' = recon_ids \cup {i}
    /\ lastOp' = Call("select", NoAcct, NoTxn, 0, "ok", 0)
    /\ UNCHANGED <<balance, available_balance, accountVars, txns, batch, lines,
                   workers, instrumentVars>>

ActionReconcile ==
    /\ txns' = ReconcileOn(txns, recon_ids)
    /\ lastOp' = Call("action_reconcile", NoAcct, NoTxn, 0, "ok", 0)
    /\ UNCHANGED <<balance, available_balance, accountVars, recon_ids, batch,
                   lines, workers, instrumentVars>>

\* Type and destination of a caller-created transaction.
TxnShapes == {<<"deposit", NoAcct>>, <<"transfer", "B">>}

-----------------------------------------------------------------------------
(* Ledger runs: deposits, withdrawals and posts on accounts with a policy *)

Init ==
    PolicyAccounts /\ IdleEngine /\ IdleBatch /\ IdleWorkers /\ IdleInstruments

\* The table of a run holds at most MaxLedgerTxns transactions.
Next ==
    \/ \E amount \in CallAmounts :
          Deposit("A", amount) /\ Len(txns') <= MaxLedgerTxns
    \/ \E amount \in CallAmounts :
          Withdraw("A", amount) /\ Len(txns') <= MaxLedgerTxns
    \/ \E sh \in TxnShapes, amount \in SignedAmounts :
          CreateTransaction(sh[1], "A", sh[2], amount, "draft")
          /\ Len(txns') <= MaxLedgerTxns
    \/ \E i \in 1..Len(txns) : ActionPost(i)

Spec == Init /\ [][Next]_vars

-----------------------------------------------------------------------------
(* Transaction-engine runs: the state machine of a transaction *)

\* Transactions callers create here: a credit, a debit left pending, a transfer.
EngineTxns ==
    {<<"deposit", NoAcct, 50, "draft">>, <<"withdrawal", NoAcct, -50, "pending">>,
     <<"transfer", "B", -50, "draft">>}

InitEngine ==
    FundedAccounts({50}) /\ IdleEngine /\ IdleBatch /\ IdleWorkers /\ IdleInstruments

\* The table of a run holds at most MaxTxns transactions.
NextEngine ==
    \/ \E c \in EngineTxns :
          CreateTransaction(c[1], "A", c[2], c[3], c[4]) /\ Len(txns') <= MaxTxns
    \/ \E i \in 1..Len(txns) : ActionPost(i)
    \/ \E i \in 1..Len(txns) : ActionReverse(i) /\ Len(txns') <= MaxTxns
    \/ \E i \in 1..Len(txns) : ActionCancel(i)
    \/ \E i \in 1..Len(txns) : SelectForReconciliation(i)
    \/ ActionReconcile

SpecEngine == InitEngine /\ [][NextEngine]_vars

-----------------------------------------------------------------------------
(* Batch runs: one batch is imported and processed line by line *)

\* A validated row of the file: the line action_import_file creates for it
\* (lines 120-128); the row number serves as the line's reference.
Line(acct, dest, amount, row) ==
    [account_id |-> acct, destination_account_id |-> dest, amount |-> amount,
     reference |-> row, row_number |-> row, state |-> "pending"]

BulkTypes == {"bulk_transfer", "salary_payment", "bulk_deposit", "bulk_withdrawal"}
LineAmounts == {0, 50, 100}

\* The rows of a file that passes validation: every account exists, and a
\* bulk_transfer row names a destination account.
ValidRows(bulk_type) ==
    LET Row == IF bulk_type = "bulk_transfer"
               THEN {<<"A", "B">>, <<"B", "A">>} \X LineAmounts
               ELSE {<<"A", NoAcct>>, <<"B", NoAcct>>} \X LineAmounts
    IN  UNION {[1..n -> Row] : n \in 1..MaxLines}

\* BulkTransaction.action_import_file, for a file that passes validation.
ImportFile(bulk_type, rows) ==
    /\ lines' = [k \in 1..Len(rows) |->
                    Line(rows[k][1][1], rows[k][1][2], rows[k][2], k + 1)]
    /\ batch' = [batch EXCEPT !.transaction_type = bulk_type, !.state = "validated"]
    /\ lastOp' = Call("action_import_file", NoAcct, NoTxn, 0, "ok", 0)
    /\ UNCHANGED <<balance, available_balance, accountVars, txns, recon_ids, workers,
                   instrumentVars>>

\* action_process_batch on a batch that is not validated (lines 143-144), a
\* batch another call is processing included.
ProcessBatchRejected ==
    /\ ~Processable(batch)
    /\ lastOp' = Call("action_process_batch", NoAcct, NoTxn, 0, "InvalidState", 0)
    /\ UNCHANGED <<balance, available_balance, accountVars, txns, recon_ids, batch,
                   lines, workers, instrumentVars>>

\* action_process_batch, lines 143-154: the batch enters 'processing'.
ProcessBatchBegin ==
    /\ Processable(batch)
    /\ batch' = [batch EXCEPT !.state = "processing", !.cursor = 1,
                              !.loc_success = 0, !.loc_failed = 0]
    /\ lastOp' = Call("action_process_batch", NoAcct, NoTxn, 0, "running", 0)
    /\ UNCHANGED <<balance, available_balance, accountVars, txns, recon_ids, lines,
                   workers, instrumentVars>>

\* action_process_batch, lines 156-183: the loop body for the line at the cursor.
ProcessBatchLine ==
    /\ batch.state = "processing"
    /\ batch.cursor <= Len(lines)
    /\ LET k == batch.cursor
           r == ProcessLineOn(CurrentStore, batch.transaction_type, lines[k])
       IN  /\ balance' = r.store.balance
           /\ available_balance' = r.store.available_balance
           /\ txns' = r.store.txns
           /\ lines' = [lines EXCEPT ![k].state = IF r.ok THEN "processed" ELSE "failed"]
           /\ batch' = [batch EXCEPT
                           !.cursor = AfterLine(k, r.ok, Len(lines)),
                           !.loc_success = IF r.ok THEN @ + 1 ELSE @,
                           !.loc_failed = IF r.ok THEN @ ELSE @ + 1]
    /\ UNCHANGED <<accountVars, recon_ids, lastOp, workers, instrumentVars>>

\* action_process_batch, lines 185-192: counts and final state are written.
ProcessBatchFinish ==
    /\ batch.state = "processing"
    /\ batch.cursor > Len(lines)
    /\ batch' = [batch EXCEPT
                    !.success_count = batch.loc_success,
                    !.failed_count = batch.loc_failed,
                    !.processed_count = batch.loc_success + batch.loc_failed,
                    !.state = BatchFinalState(batch.loc_success, batch.loc_failed)]
    /\ lastOp' = Call("action_process_batch", NoAcct, NoTxn, 0, "ok", 0)
    /\ UNCHANGED <<balance, available_balance, accountVars, txns, recon_ids, lines,
                   workers, instrumentVars>>

InitBatch ==
    FundedAccounts(OpeningBalances) /\ IdleEngine /\ IdleBatch /\ IdleWorkers /\ IdleInstruments

NextBatch ==
    \/ /\ batch.state = "draft"
       /\ \E bulk_type \in BulkTypes : \E rows \in ValidRows(bulk_type) :
             ImportFile(bulk_type, rows)
    \/ ProcessBatchRejected
    \/ ProcessBatchBegin
    \/ ProcessBatchLine
    \/ ProcessBatchFinish

SpecBatch == InitBatch /\ [][NextBatch]_vars

-----------------------------------------------------------------------------
(* Import runs: files are imported into one batch, valid or not *)

\* A row of the file as csv.DictReader yields it: every value is text, and a
\* value the row does not carry reads as empty.
FileRow(account_number, amount, reference, destination_account) ==
    [account_number |-> account_number, amount |-> amount,
     reference |-> reference, destination_account |-> destination_account]

\* The rows a file is made of: two rows that are in order, and rows with one
\* value missing, an account number no account has, or an amount that is not
\* a number.
FileRows ==
    {FileRow("A", "50", "ref", "B"), FileRow("B", "100", "ref", "A"),
     FileRow("", "50", "ref", "B"), FileRow("X", "50", "ref", "B"),
     FileRow("A", "", "ref", "B"), FileRow("A", "abc", "ref", "B"),
     FileRow("A", "50", "", "B"),
     FileRow("A", "50", "ref", ""), FileRow("A", "50", "ref", "X")}

Files == UNION {[1..n -> FileRows] : n \in 1..MaxRows}

\* float(row['amount']) (line 124): the texts it converts, and their values.
IsNumber(text) == text \in {"0", "50", "100"}

Float(text) ==
    CASE text = "0" -> 0
      [] text = "50" -> 50
      [] text = "100" -> 100

\* required_fields (lines 91-93).
RequiredFields(bulk_type) ==
    IF bulk_type = "bulk_transfer"
    THEN {"account_number", "amount", "reference", "destination_account"}
    ELSE {"account_number", "amount", "reference"}

\* missing_fields (line 97).
MissingFields(bulk_type, row) == {f \in RequiredFields(bulk_type) : row[f] = ""}

\* search([('account_number', '=', number)], limit=1): the account, if any.
SearchAccount(number) == IF number \in Accts THEN number ELSE NoAcct

\* The loop body for one row (lines 96-128): how the row ends the import, or
\* "ok" when its line is appended to lines_to_create.
RowResult(bulk_type, row) ==
    IF MissingFields(bulk_type, row) # {} THEN "MissingField"
    ELSE IF SearchAccount(row.account_number) = NoAcct THEN "AccountNotFound"
    ELSE IF /\ bulk_type = "bulk_transfer"
            /\ SearchAccount(row.destination_account) = NoAcct
    THEN "AccountNotFound"
    ELSE IF ~IsNumber(row.amount) THEN "ValueError"
    ELSE "ok"

\* The line built for a row that is in order (lines 120-128); enumerate starts
\* at 2, and the row number stands for the row's reference text.
RowLine(bulk_type, row, k) ==
    Line(SearchAccount(row.account_number),
         IF bulk_type = "bulk_transfer"
         THEN SearchAccount(row.destination_account) ELSE NoAcct,
         Float(row.amount), k + 1)

\* The rows at which the loop raises.
RaisingRows(bulk_type, file) ==
    {k \in 1..Len(file) : RowResult(bulk_type, file[k]) # "ok"}

Min(S) == CHOOSE x \in S : \A y \in S : x <= y

\* What lastOp records of an import: the error and the row number its message
\* names (0 when the message names none).
ImportCall(result, row) ==
    [op |-> "action_import_file", acct |-> NoAcct, txn |-> NoTxn, amount |-> 0,
     result |-> result, before |-> 0, row |-> row]

\* The first row that raises ends the import; existing lines are removed and
\* the new ones created only after the loop (lines 131-134).
ImportOn(bulk_type, file, old_lines, state) ==
    LET raising == RaisingRows(bulk_type, file)
    IN  IF raising = {}
        THEN [call  |-> ImportCall("ok", 0),
              lines |-> [k \in 1..Len(file) |-> RowLine(bulk_type, file[k], k)],
              state |-> "validated"]
        ELSE LET k == Min(raising)
                 result == RowResult(bulk_type, file[k])
             IN  [call  |-> ImportCall(result,
                                       IF result = "ValueError" THEN 0 ELSE k + 1),
                  lines |-> old_lines,
                  state |-> state]

\* BulkTransaction.action_import_file on the batch, for any file.
ActionImportFile(file) ==
    LET r == ImportOn(batch.transaction_type, file, lines, batch.state)
    IN  /\ lines' = r.lines
        /\ batch' = [batch EXCEPT !.state = r.state]
        /\ lastOp' = r.call
        /\ UNCHANGED <<balance, available_balance, accountVars, txns, recon_ids,
                       workers, instrumentVars>>

\* A batch of any kind has been created; nothing is imported yet.
InitImport ==
    /\ FundedAccounts({0}) /\ IdleEngine /\ IdleWorkers /\ IdleInstruments
    /\ lines = <<>>
    /\ \E bulk_type \in BulkTypes : batch = [NoBatch EXCEPT !.transaction_type = bulk_type]

NextImport == \E file \in Files : ActionImportFile(file)

SpecImport == InitImport /\ [][NextImport]_vars

-----------------------------------------------------------------------------
(* Scheduler runs: standing orders are created, activated, cancelled and     *)
(* processed by the cron as the days pass.                                   *)

\* Standing orders users create: source, destination, amount, frequency,
\* next execution date, end date.
OrderShapes ==
    {<<"A", "B", 50, "daily", 0, NoDate>>, <<"A", "B", 100, "monthly", 0, NoDate>>,
     <<"B", "A", 50, "weekly", 1, NoDate>>, <<"A", "B", 50, "daily", 0, 0>>}

\* What lastOp records of a cron run: the orders attempted and those failed.
CronCall(attempted, failed) ==
    [op |-> "_cron_process_standing_orders", acct |-> NoAcct, txn |-> NoTxn,
     amount |-> 0, result |-> "ok", before |-> 0,
     attempted |-> attempted, failed |-> failed]

CreateStandingOrder(sh) ==
    /\ orders' = Append(orders, StandingOrder(sh[1], sh[2], sh[3], sh[4], sh[5], sh[6]))
    /\ lastOp' = Call("create_standing_order", NoAcct, NoTxn, 0, "ok", 0)
    /\ UNCHANGED <<balance, available_balance, accountVars, txns, recon_ids, batch,
                   lines, workers, today, productVars>>

\* StandingOrder.action_activate
OrderActivate(k) ==
    /\ orders' = [orders EXCEPT ![k].state = "active"]
    /\ lastOp' = Call("order_activate", NoAcct, NoTxn, 0, "ok", 0)
    /\ UNCHANGED <<balance, available_balance, accountVars, txns, recon_ids, batch,
                   lines, workers, today, productVars>>

\* StandingOrder.action_cancel
OrderCancel(k) ==
    /\ orders' = [orders EXCEPT ![k].state = "cancelled"]
    /\ lastOp' = Call("order_cancel", NoAcct, NoTxn, 0, "ok", 0)
    /\ UNCHANGED <<balance, available_balance, accountVars, txns, recon_ids, batch,
                   lines, workers, today, productVars>>

\* StandingOrder._cron_process_standing_orders
CronProcessStandingOrders ==
    LET r == RunOrders(CurrentStore, orders, DueOrders(orders, today))
    IN  /\ balance' = r.store.balance
        /\ available_balance' = r.store.available_balance
        /\ txns' = r.store.txns
        /\ orders' = r.orders
        /\ lastOp' = CronCall(r.attempted, r.failed)
        /\ UNCHANGED <<accountVars, recon_ids, batch, lines, workers, today, productVars>>

\* A day passes.
Tick ==
    /\ today < MaxDay
    /\ today' = today + 1
    /\ UNCHANGED <<balance, available_balance, accountVars, txns, recon_ids, lastOp,
                   batch, lines, workers, orders, productVars>>

InitOrders ==
    /\ FundedAccounts(OpeningBalances) /\ IdleEngine /\ IdleBatch /\ IdleWorkers
    /\ IdleInstruments

NextOrders ==
    \/ \E sh \in OrderShapes : CreateStandingOrder(sh) /\ Len(orders') <= MaxOrders
    \/ \E k \in 1..Len(orders) : OrderActivate(k)
    \/ \E k \in 1..Len(orders) : OrderCancel(k)
    \/ CronProcessStandingOrders
    \/ Tick

SpecOrders == InitOrders /\ [][NextOrders]_vars

-----------------------------------------------------------------------------
(* Lifecycle runs: an account is activated, frozen, marked dormant and       *)
(* closed while money is moved on it.                                        *)

\* Accounts as created: state 'draft' (line 46), balance 0, default policy.
DraftAccounts ==
    /\ hold_amount = [a \in Accts |-> 0]
    /\ overdraft_limit = [a \in Accts |-> 0]
    /\ allow_overdraft = [a \in Accts |-> FALSE]
    /\ balance = [a \in Accts |-> 0]
    /\ opening = balance
    /\ acc_state = [a \in Accts |-> "draft"]
    /\ available_balance =
          [a \in Accts |-> ComputeAvailableBalance(balance[a], hold_amount[a],
                                                   allow_overdraft[a], overdraft_limit[a])]

\* What a lifecycle action of account a leaves besides the account's state.
AccountReturns(op, a, result) ==
    /\ lastOp' = Call(op, a, NoTxn, 0, result, balance[a])
    /\ UNCHANGED <<balance, available_balance, hold_amount, allow_overdraft,
                   overdraft_limit, opening, txns, recon_ids, batch, lines, workers,
                   instrumentVars>>

\* Account.action_activate
AccountActivate(a) ==
    /\ acc_state' = [acc_state EXCEPT ![a] = "active"]
    /\ AccountReturns("action_activate", a, "ok")

\* Account.action_close: refused unless the balance is zero.
AccountClose(a) ==
    IF balance[a] # 0
    THEN /\ acc_state' = acc_state
         /\ AccountReturns("action_close", a, "NonZeroBalance")
    ELSE /\ acc_state' = [acc_state EXCEPT ![a] = "closed"]
         /\ AccountReturns("action_close", a, "ok")

\* Account.action_freeze
AccountFreeze(a) ==
    /\ acc_state' = [acc_state EXCEPT ![a] = "restricted"]
    /\ AccountReturns("action_freeze", a, "ok")

\* Account.action_unfreeze
AccountUnfreeze(a) ==
    /\ acc_state' = [acc_state EXCEPT ![a] = "active"]
    /\ AccountReturns("action_unfreeze", a, "ok")

\* Account.action_mark_dormant
AccountMarkDormant(a) ==
    /\ acc_state' = [acc_state EXCEPT ![a] = "dormant"]
    /\ AccountReturns("action_mark_dormant", a, "ok")

\* Amounts and transactions of the lifecycle runs.
LifeAmounts == {50}
LifeTxns == {<<"deposit", 50>>, <<"withdrawal", -50>>}

InitLifecycle ==
    /\ DraftAccounts /\ IdleEngine /\ IdleBatch /\ IdleWorkers /\ IdleInstruments

NextLifecycle ==
    \/ AccountActivate("A")
    \/ AccountClose("A")
    \/ AccountFreeze("A")
    \/ AccountUnfreeze("A")
    \/ AccountMarkDormant("A")
    \/ \E amount \in LifeAmounts :
          Deposit("A", amount) /\ Len(txns') <= MaxLedgerTxns
    \/ \E amount \in LifeAmounts :
          Withdraw("A", amount) /\ Len(txns') <= MaxLedgerTxns
    \/ \E c \in LifeTxns :
          CreateTransaction(c[1], "A", NoAcct, c[2], "draft")
          /\ Len(txns') <= MaxLedgerTxns
    \/ \E i \in 1..Len(txns) : ActionPost(i)

SpecLifecycle == InitLifecycle /\ [][NextLifecycle]_vars

-----------------------------------------------------------------------------
(* Loan runs: a loan is taken through its states, disbursed, and its         *)
(* payment schedule generated.                                               *)

\* Loans users create: principal, annual rate in percent, term in months.
LoanTerms ==
    {<<300, 1200, 2>>, <<630, 1200, 6>>, <<300, 12, 3>>, <<1200, 0, 12>>,
     <<300, 0, 3>>}

PaymentFrequencies == {"monthly", "quarterly", "semi_annual", "annual"}

LoanCall(op, result) == Call(op, NoAcct, NoTxn, 0, result, 0)

\* What an operation of the loan leaves besides the loan.
LoanReturns(op, result) ==
    /\ lastOp' = LoanCall(op, result)
    /\ UNCHANGED <<balance, available_balance, accountVars, txns, recon_ids, batch,
                   lines, workers, orders, today, fixed_deposit,
                   scheduled>>

\* Loan.action_submit
LoanSubmit ==
    /\ loan' = [loan EXCEPT !.state = "submitted"]
    /\ LoanReturns("action_submit", "ok")

\* Loan.action_approve
LoanApprove ==
    /\ loan' = [loan EXCEPT !.state = "approved"]
    /\ LoanReturns("action_approve", "ok")

\* Loan.action_reject
LoanReject ==
    /\ loan' = [loan EXCEPT !.state = "rejected"]
    /\ LoanReturns("action_reject", "ok")

\* Loan.action_mark_default
LoanMarkDefault ==
    /\ loan' = [loan EXCEPT !.state = "defaulted"]
    /\ LoanReturns("action_mark_default", "ok")

\* Loan.generate_payment_schedule
GeneratePaymentSchedule ==
    LET r == GenerateOn(loan)
    IN  /\ loan' = r.loan
        /\ LoanReturns("generate_payment_schedule", r.result)

\* Loan.action_disburse: writes state and disbursement date, then generates
\* the schedule. When the generation raises, the error reaches the caller,
\* whose transaction either keeps the write or rolls it back.
LoanDisburse ==
    LET written == [loan EXCEPT !.state = "disbursed", !.disbursement_date = today]
        r == GenerateOn(written)
    IN  /\ IF r.result = "ok" THEN loan' = r.loan
           ELSE loan' = written \/ loan' = loan
        /\ LoanReturns("action_disburse", r.result)

InitLoan ==
    /\ FundedAccounts({0}) /\ IdleEngine /\ IdleBatch /\ IdleWorkers
    /\ orders = <<>> /\ today = 0 /\ fixed_deposit = NoDeposit /\ scheduled = <<>>
    /\ \E t \in LoanTerms, f \in PaymentFrequencies : loan = Loan(t[1], t[2], t[3], f)

NextLoan ==
    \/ LoanSubmit
    \/ LoanApprove
    \/ LoanReject
    \/ LoanMarkDefault
    \/ LoanDisburse
    \/ GeneratePaymentSchedule

SpecLoan == InitLoan /\ [][NextLoan]_vars

-----------------------------------------------------------------------------
(* Deposit runs: a fixed deposit on account A is activated, matured and      *)
(* withdrawn early.                                                          *)

\* Deposits users create: principal, annual rate in percent, term in months,
\* compounding. The amounts they yield are whole units.
DepositTerms ==
    {<<100, 12, 12, "simple">>, <<200, 12, 12, "annual">>, <<100, 0, 12, "simple">>}

\* Penalty rates in percent; 1.0 is the field's default (line 59).
PenaltyRates == {1, 50, 100}

\* withdrawal_amount as callers pass it; 0 for none.
WithdrawalAmounts == {-100, 0, 100, 300}

\* What lastOp records of a call on the deposit.
DepositCall(op, r) ==
    [op |-> op, acct |-> fixed_deposit.account_id, txn |-> NoTxn, amount |-> 0,
     result |-> r.result, before |-> balance[fixed_deposit.account_id],
     gross_amount |-> r.gross_amount, penalty |-> r.penalty,
     net_amount |-> r.net_amount]

\* What a call on the deposit leaves besides the deposit.
ApplyDeposit(op, r) ==
    /\ balance' = r.store.balance
    /\ available_balance' = r.store.available_balance
    /\ txns' = r.store.txns
    /\ lastOp' = DepositCall(op, r)
    /\ UNCHANGED <<accountVars, recon_ids, batch, lines, workers, orders, today, loan,
                   scheduled>>

DepositActivate ==
    LET r == ActivateDepositOn(CurrentStore, fixed_deposit)
    IN  /\ fixed_deposit' = r.deposit
        /\ ApplyDeposit("action_activate", r)

DepositMature ==
    LET r == MatureOn(CurrentStore, fixed_deposit)
    IN  /\ fixed_deposit' = r.deposit
        /\ ApplyDeposit("action_mature", r)

DepositWithdrawEarly(withdrawal_amount) ==
    LET r == WithdrawEarlyOn(CurrentStore, fixed_deposit, withdrawal_amount)
    IN  /\ fixed_deposit' = r.deposit
        /\ ApplyDeposit("action_withdraw_early", r)

InitDeposit ==
    /\ FundedAccounts({0}) /\ IdleEngine /\ IdleBatch /\ IdleWorkers
    /\ orders = <<>> /\ today = 0 /\ loan = NoLoan /\ scheduled = <<>>
    /\ \E t \in DepositTerms, allow \in BOOLEAN, rate \in PenaltyRates :
          fixed_deposit = FixedDeposit("A", t[1], t[2], t[3], t[4], allow, rate)

\* The table of a run holds at most MaxLedgerTxns transactions.
NextDeposit ==
    \/ DepositActivate
    \/ DepositMature /\ Len(txns') <= MaxLedgerTxns
    \/ \E withdrawal_amount \in WithdrawalAmounts :
          DepositWithdrawEarly(withdrawal_amount) /\ Len(txns') <= MaxLedgerTxns

SpecDeposit == InitDeposit /\ [][NextDeposit]_vars

-----------------------------------------------------------------------------
(* Policy runs: the hold, the overdraft limit and the overdraft permission   *)
(* of account A are changed while money is moved on it.                      *)

\* What a write of a policy field of an account leaves besides that field and
\* the stored available_balance.
PolicyReturns(op, a) ==
    /\ lastOp' = Call(op, a, NoTxn, 0, "ok", balance[a])
    /\ UNCHANGED <<balance, acc_state, opening, txns, recon_ids, batch, lines,
                   workers, instrumentVars>>

\* A write of another value to Account.hold_amount: the field is a dependency
\* of available_balance (account.py line 90), which is recomputed.
WriteHoldAmount(a, hold) ==
    /\ hold # hold_amount[a]
    /\ hold_amount' = [hold_amount EXCEPT ![a] = hold]
    /\ available_balance' =
          [available_balance EXCEPT
              ![a] = ComputeAvailableBalance(balance[a], hold, allow_overdraft[a],
                                             overdraft_limit[a])]
    /\ UNCHANGED <<allow_overdraft, overdraft_limit>>
    /\ PolicyReturns("write_hold_amount", a)

\* A write of another value to Account.overdraft_limit, a dependency too.
WriteOverdraftLimit(a, limit) ==
    /\ limit # overdraft_limit[a]
    /\ overdraft_limit' = [overdraft_limit EXCEPT ![a] = limit]
    /\ available_balance' =
          [available_balance EXCEPT
              ![a] = ComputeAvailableBalance(balance[a], hold_amount[a],
                                             allow_overdraft[a], limit)]
    /\ UNCHANGED <<hold_amount, allow_overdraft>>
    /\ PolicyReturns("write_overdraft_limit", a)

\* A write of the other value to Account.allow_overdraft: the field is not
\* among the dependencies of available_balance, so the stored value stays.
WriteAllowOverdraft(a, allow) ==
    /\ allow # allow_overdraft[a]
    /\ allow_overdraft' = [allow_overdraft EXCEPT ![a] = allow]
    /\ UNCHANGED <<available_balance, hold_amount, overdraft_limit>>
    /\ PolicyReturns("write_allow_overdraft", a)

InitPolicy ==
    PolicyAccounts /\ IdleEngine /\ IdleBatch /\ IdleWorkers /\ IdleInstruments

\* The table of a run holds at most MaxLedgerTxns transactions.
NextPolicy ==
    \/ \E hold \in HoldAmounts : WriteHoldAmount("A", hold)
    \/ \E limit \in OverdraftLimits : WriteOverdraftLimit("A", limit)
    \/ \E allow \in BOOLEAN : WriteAllowOverdraft("A", allow)
    \/ \E amount \in CallAmounts :
          Deposit("A", amount) /\ Len(txns') <= MaxLedgerTxns
    \/ \E amount \in CallAmounts :
          Withdraw("A", amount) /\ Len(txns') <= MaxLedgerTxns

SpecPolicy == InitPolicy /\ [][NextPolicy]_vars

-----------------------------------------------------------------------------
(* Re-arming runs: _schedule_next_execution is applied to an active order,  *)
(* again and again. Dates count the days since 1 January 2023.               *)

\* First execution dates: 1 and 31 January 2023, 31 January 2024.
StartDates == {0, 30, 395}
Frequencies == {"daily", "weekly", "monthly", "quarterly", "yearly"}

\* StandingOrder._schedule_next_execution on order k.
OrderScheduleNext(k) ==
    /\ orders' = [orders EXCEPT ![k] = ScheduleNextExecution(orders[k])]
    /\ orders'[k].next_execution_date <= MaxDate
    /\ lastOp' = Call("_schedule_next_execution", NoAcct, NoTxn, 0, "ok", 0)
    /\ UNCHANGED <<balance, available_balance, accountVars, txns, recon_ids, batch,
                   lines, workers, today, productVars>>

InitRearm ==
    /\ FundedAccounts({50}) /\ IdleEngine /\ IdleBatch /\ IdleWorkers
    /\ today = 0 /\ loan = NoLoan /\ fixed_deposit = NoDeposit /\ scheduled = <<>>
    /\ \E f \in Frequencies, d \in StartDates :
          orders = <<[StandingOrder("A", "B", 50, f, d, NoDate) EXCEPT !.state = "active"]>>

NextRearm ==
    \/ \E k \in 1..Len(orders) : OrderScheduleNext(k)
    \/ Tick

SpecRearm == InitRearm /\ [][NextRearm]_vars

-----------------------------------------------------------------------------
(* Scheduled runs: scheduled transactions on account A are created,          *)
(* processed by hand and by the cron as the days pass.                       *)

\* Scheduled transactions users create: type, destination, amount, date,
\* auto_process. Account A opens with 50.
ScheduledShapes ==
    {<<"deposit", NoAcct, 50, 0, TRUE>>, <<"withdrawal", NoAcct, 100, 1, TRUE>>,
     <<"transfer", "B", 50, 0, FALSE>>, <<"payment", NoAcct, 0, 1, TRUE>>}

ScheduledCall(op, k, result) ==
    Call(op, NoAcct, NoTxn, k, result, 0)

CreateScheduled(sh) ==
    /\ scheduled' = Append(scheduled,
                           ScheduledTransaction(sh[1], "A", sh[2], sh[3], sh[4], sh[5]))
    /\ lastOp' = ScheduledCall("create_scheduled", Len(scheduled) + 1, "ok")
    /\ UNCHANGED <<balance, available_balance, accountVars, txns, recon_ids, batch,
                   lines, workers, orders, today, loan, fixed_deposit>>

\* ScheduledTransaction.action_process_now on record k.
ScheduledProcessNow(k) ==
    LET r == ProcessNowOn(CurrentStore, scheduled[k])
    IN  /\ scheduled' = [scheduled EXCEPT ![k] = r.scheduled]
        /\ balance' = r.store.balance
        /\ available_balance' = r.store.available_balance
        /\ txns' = r.store.txns
        /\ lastOp' = ScheduledCall("action_process_now", k, r.result)
        /\ UNCHANGED <<accountVars, recon_ids, batch, lines, workers, orders, today,
                       loan, fixed_deposit>>

\* ScheduledTransaction._cron_process_scheduled_transactions
CronProcessScheduled ==
    LET due == {k \in 1..Len(scheduled) : DueScheduled(scheduled[k], today)}
        r == RunScheduled(CurrentStore, scheduled, due, 1)
    IN  /\ scheduled' = r.scheduled
        /\ balance' = r.store.balance
        /\ available_balance' = r.store.available_balance
        /\ txns' = r.store.txns
        /\ lastOp' = ScheduledCall("_cron_process_scheduled_transactions", 0, "ok")
        /\ UNCHANGED <<accountVars, recon_ids, batch, lines, workers, orders, today,
                       loan, fixed_deposit>>

InitScheduled ==
    FundedAccounts({50}) /\ IdleEngine /\ IdleBatch /\ IdleWorkers /\ IdleInstruments

\* The table of a run holds at most MaxTxns transactions.
NextScheduled ==
    \/ \E sh \in ScheduledShapes :
          CreateScheduled(sh) /\ Len(scheduled') <= MaxScheduled
    \/ \E k \in 1..Len(scheduled) :
          ScheduledProcessNow(k) /\ Len(txns') <= MaxTxns
    \/ CronProcessScheduled /\ Len(txns') <= MaxTxns
    \/ Tick

SpecScheduled == InitScheduled /\ [][NextScheduled]_vars

-----------------------------------------------------------------------------
(* Payment runs: payments are recorded against the rows of a disbursed loan  *)
(* as the days pass.                                                         *)

\* Rows of the loan: principal, interest and penalty amount; all fall due
\* on day 1.
PaymentRows == {<<80, 20, 0>>, <<80, 20, 10>>}
PaymentAmounts == {-50, 0, 10, 50, 100}

PaymentCall(k, amount, r) ==
    [op |-> "action_record_payment", acct |-> "A", txn |-> NoTxn, amount |-> amount,
     result |-> r.result, before |-> balance["A"], row |-> k]

\* LoanPayment.action_record_payment on row k of the loan.
RecordPayment(k, amount) ==
    LET r == RecordPaymentOn(CurrentStore, loan.payment_ids[k], amount, "A", today)
    IN  /\ loan' = [loan EXCEPT !.payment_ids[k] = r.payment]
        /\ balance' = r.store.balance
        /\ available_balance' = r.store.available_balance
        /\ txns' = r.store.txns
        /\ lastOp' = PaymentCall(k, amount, r)
        /\ UNCHANGED <<accountVars, recon_ids, batch, lines, workers, orders, today,
                       fixed_deposit, scheduled>>

InitPayment ==
    /\ FundedAccounts({100}) /\ IdleEngine /\ IdleBatch /\ IdleWorkers
    /\ orders = <<>> /\ today = 0 /\ fixed_deposit = NoDeposit /\ scheduled = <<>>
    /\ \E row \in PaymentRows :
          loan = [Loan(80, 12, 1, "monthly") EXCEPT
                     !.state = "disbursed", !.disbursement_date = 0,
                     !.payment_ids = <<LoanPayment(1, 1, row[1], row[2], row[3], 0)>>]

\* The table of a run holds at most MaxTxns transactions.
NextPayment ==
    \/ \E k \in 1..Len(loan.payment_ids), amount \in PaymentAmounts :
          RecordPayment(k, amount) /\ Len(txns') <= MaxTxns
    \/ Tick

SpecPayment == InitPayment /\ [][NextPayment]_vars

-----------------------------------------------------------------------------
(* Concurrent runs: several callers run a balance-mutating operation on      *)
(* account A at the same time. The handlers take no lock, so their reads and *)
(* writes of the account interleave; what is private to a caller (creating   *)
(* its transaction record) is joined to its neighbouring step.               *)

RaceOps == {"deposit", "withdraw", "action_post"}
RaceAmounts == {50, 100}

Worker(op, amount) ==
    [op |-> op, amount |-> amount,
     pc |-> IF op = "deposit" THEN "read" ELSE "check",
     seen |-> 0, txn |-> NoTxn, result |-> "running"]

\* The signed amount a caller's operation applies to the balance.
Signed(w) == IF w.op = "deposit" THEN w.amount ELSE -w.amount

\* withdraw lines 157-169 / action_post lines 120-126 (on the transaction the
\* caller has just created in draft): read available_balance and compare.
WorkerCheck(w) ==
    /\ workers[w].pc = "check"
    /\ LET me == workers[w]
           short == InsufficientFunds(me.amount, available_balance["A"])
           t == IF me.op = "withdraw"
                THEN Txn("withdrawal", "A", NoAcct, -me.amount, "posted", NoTxn, 0)
                ELSE Txn("withdrawal", "A", NoAcct, -me.amount, "draft", NoTxn, 0)
       IN  /\ txns' = IF short /\ me.op = "withdraw" THEN txns ELSE Append(txns, t)
           /\ workers' = [workers EXCEPT
                 ![w].pc = IF short THEN "done" ELSE "read",
                 ![w].txn = IF short /\ me.op = "withdraw" THEN NoTxn ELSE Len(txns) + 1,
                 ![w].result = IF short THEN "InsufficientFunds" ELSE @]
    /\ UNCHANGED <<balance, available_balance, accountVars, recon_ids, lastOp,
                   batch, lines, instrumentVars>>

\* The read of `balance += amount` (deposit line 145, withdraw line 172,
\* action_post line 129); deposit creates its transaction first (line 135).
WorkerRead(w) ==
    /\ workers[w].pc = "read"
    /\ LET me == workers[w]
       IN  /\ txns' = IF me.op = "deposit"
                      THEN Append(txns, Txn("deposit", "A", NoAcct, me.amount,
                                            "posted", NoTxn, 0))
                      ELSE txns
           /\ workers' = [workers EXCEPT
                 ![w].pc = "write", ![w].seen = balance["A"],
                 ![w].txn = IF me.op = "deposit" THEN Len(txns) + 1 ELSE @]
    /\ UNCHANGED <<balance, available_balance, accountVars, recon_ids, lastOp,
                   batch, lines, instrumentVars>>

\* The write of `balance += amount`; action_post then writes state 'posted'.
WorkerWrite(w) ==
    /\ workers[w].pc = "write"
    /\ LET me == workers[w]
           bal == [balance EXCEPT !["A"] = me.seen + Signed(me)]
       IN  /\ balance' = bal
           /\ available_balance' = Recompute(available_balance, bal, {"A"})
           /\ txns' = IF me.op = "action_post"
                      THEN [txns EXCEPT ![me.txn] = WriteState(@, "posted")]
                      ELSE txns
           /\ workers' = [workers EXCEPT ![w].pc = "done", ![w].result = "ok"]
    /\ UNCHANGED <<accountVars, recon_ids, lastOp, batch, lines, instrumentVars>>

InitRace ==
    /\ FundedAccounts(OpeningBalances) /\ IdleEngine /\ IdleBatch /\ IdleInstruments
    /\ workers \in [1..MaxWorkers -> {Worker(op, amount) : op \in RaceOps,
                                                         amount \in RaceAmounts}]

NextRace ==
    \/ \E w \in 1..MaxWorkers : WorkerCheck(w)
    \/ \E w \in 1..MaxWorkers : WorkerRead(w)
    \/ \E w \in 1..MaxWorkers : WorkerWrite(w)

SpecRace == InitRace /\ [][NextRace]_vars

-----------------------------------------------------------------------------
(* Properties *)

Finished == batch.state \in {"completed", "failed"}

\* C1: a transaction posted with action_post and reversed by the very next
\* call leaves its account with the balance it had before the post.
C1_ReversalRoundTrip ==
    [][(/\ lastOp.op = "action_post" /\ lastOp.result = "ok"
        /\ lastOp'.op = "action_reverse" /\ lastOp'.result = "ok"
        /\ lastOp'.txn = lastOp.txn)
       => balance'[lastOp.acct] = lastOp.before]_vars

\* The floor a debit may take an account's balance to.
PolicyFloor(a) == IF allow_overdraft[a] THEN -overdraft_limit[a] ELSE 0

AcceptedDebit ==
    /\ lastOp.result = "ok"
    /\ \/ lastOp.op = "withdraw"
       \/ lastOp.op = "action_post" /\ lastOp.amount < 0

\* C2: after an accepted debit (a withdraw, or a post of a negative amount) the
\* account's balance is not below its policy floor: 0 without overdraft,
\* -overdraft_limit with it.
C2_PolicyFloor == AcceptedDebit => balance[lastOp.acct] >= PolicyFloor(lastOp.acct)

\* A posted debit took an overdraft account exactly to its floor.
C2_Witness ==
    /\ AcceptedDebit /\ lastOp.op = "action_post"
    /\ allow_overdraft[lastOp.acct] /\ overdraft_limit[lastOp.acct] > 0
    /\ balance[lastOp.acct] = PolicyFloor(lastOp.acct)

\* C5: on an active account without overdraft, withdraw(amount) with
\* amount > available_balance ends in InsufficientFunds, changes no balance
\* and creates no transaction; with 0 < amount <= available_balance it
\* succeeds and lowers the balance by exactly amount.
C5_Withdraw ==
    [][\A a \in Accts, amount \in CallAmounts :
          (Withdraw(a, amount) /\ acc_state[a] = "active" /\ ~allow_overdraft[a])
          => /\ amount > available_balance[a]
                => /\ lastOp'.result = "InsufficientFunds"
                   /\ balance' = balance
                   /\ txns' = txns
             /\ (0 < amount /\ amount <= available_balance[a])
                => /\ lastOp'.result = "ok"
                   /\ balance'[a] = balance[a] - amount
                   /\ available_balance'[a] = Max(0, balance[a] - amount - hold_amount[a])]_vars

\* Balance 100, no overdraft, no hold: withdraw(150) has just failed and the
\* balance is still 100.
C5_Witness ==
    /\ lastOp = Call("withdraw", "A", NoTxn, 150, "InsufficientFunds", 100)
    /\ balance["A"] = 100 /\ available_balance["A"] = 100
    /\ ~allow_overdraft["A"] /\ hold_amount["A"] = 0 /\ acc_state["A"] = "active"

ReversalsOf(ts, i) == {j \in 1..Len(ts) : ts[j].reversed_entry_id = i}

\* C6: no transaction ever has more than one reversal created for it, and
\* action_reverse on a transaction that already has one creates no
\* transaction and changes no balance.
C6_ReversedAtMostOnce ==
    [][/\ \A i \in 1..Len(txns') : Cardinality(ReversalsOf(txns', i)) <= 1
       /\ \A i \in 1..Len(txns) :
             (ActionReverse(i) /\ ReversalsOf(txns, i) # {})
             => txns' = txns /\ balance' = balance]_vars

\* Transaction 1 was reversed by transaction 2, and a further action_reverse
\* has just returned without doing anything (transaction 2 itself is still
\* reversible, so the call was on transaction 1).
C6_Witness ==
    /\ Len(txns) = 2
    /\ txns[1].state = "reversed" /\ txns[1].reversal_id = 2
    /\ ReversalsOf(txns, 1) = {2}
    /\ Reversible(txns[2])
    /\ lastOp.op = "action_reverse" /\ lastOp.result = "noop"

AllowedEdges ==
    {<<"draft", "posted">>, <<"pending", "posted">>, <<"posted", "reconciled">>,
     <<"posted", "reversed">>, <<"draft", "cancelled">>, <<"pending", "cancelled">>}

\* C7: a transaction's state changes only along draft/pending -> posted,
\* posted -> reconciled, posted -> reversed, draft/pending -> cancelled.
C7_OneWay ==
    [][\A i \in 1..Len(txns) :
          txns'[i].state # txns[i].state
          => <<txns[i].state, txns'[i].state>> \in AllowedEdges]_vars

RECURSIVE SumWorkers(_, _)
\* Sum of f over the workers 1..n.
SumWorkers(f(_), n) == IF n = 0 THEN 0 ELSE f(n) + SumWorkers(f, n - 1)

RaceDone == \A w \in 1..MaxWorkers : workers[w].pc = "done"

SucceededAmount(w) == IF workers[w].result = "ok" THEN Signed(workers[w]) ELSE 0

\* available_balance of A as it stood when the callers started.
StartAvailable ==
    ComputeAvailableBalance(opening["A"], hold_amount["A"], allow_overdraft["A"],
                            overdraft_limit["A"])

\* C3: two debits running at the same time do not both succeed when together
\* they exceed the available balance measured before they started.
C3_NoDoubleDebit ==
    \A w1, w2 \in 1..MaxWorkers :
        (/\ w1 # w2
         /\ \A w \in 1..MaxWorkers : workers[w].op # "deposit"
         /\ workers[w1].pc = "done" /\ workers[w1].result = "ok"
         /\ workers[w2].pc = "done" /\ workers[w2].result = "ok")
        => workers[w1].amount + workers[w2].amount <= StartAvailable

\* C4: when all concurrent callers are done the balance is the initial
\* balance plus the signed amounts of the operations that succeeded.
C4_NoLostUpdate ==
    RaceDone => balance["A"] = opening["A"] + SumWorkers(SucceededAmount, MaxWorkers)

\* C8: once action_process_batch is over, every line is processed or failed
\* and success_count + failed_count is the number of lines.
C8_ContinueOnFailure ==
    Finished
    => /\ \A k \in 1..Len(lines) : lines[k].state \in {"processed", "failed"}
       /\ batch.success_count + batch.failed_count = Len(lines)
       /\ batch.success_count = Cardinality({k \in 1..Len(lines) : lines[k].state = "processed"})
       /\ batch.failed_count = Cardinality({k \in 1..Len(lines) : lines[k].state = "failed"})

\* The first line failed and a later line was still processed.
C8_Witness ==
    /\ Finished /\ Len(lines) >= 2
    /\ lines[1].state = "failed" /\ lines[2].state = "processed"

\* C9: after action_process_batch the batch is completed exactly when
\* failed_count = 0 and failed otherwise.
C9_BatchState ==
    Finished
    => /\ batch.state = "completed" <=> batch.failed_count = 0
       /\ batch.state = "failed" <=> batch.failed_count > 0

\* A batch with lines that succeeded and a line that failed ended failed.
C9_Witness ==
    /\ batch.state = "failed" /\ batch.success_count > 0 /\ batch.failed_count > 0

\* The posted transactions of table ts that match a line of the batch.
MatchingIn(ts, line) ==
    {j \in 1..Len(ts) :
        /\ ts[j].reference = line.reference
        /\ ts[j].account_id = line.account_id
        /\ ts[j].amount = LineAmount(batch.transaction_type, line.amount)
        /\ ts[j].state = "posted"}

MatchingTxns(k) == MatchingIn(txns, lines[k])

\* What the posted transactions of the processed lines 1..n add to account a.
RECURSIVE ProcessedEffect(_, _)
ProcessedEffect(a, n) ==
    IF n = 0 THEN 0
    ELSE ProcessedEffect(a, n - 1)
         + (IF lines[n].state = "processed" /\ lines[n].account_id = a
            THEN LineAmount(batch.transaction_type, lines[n].amount) ELSE 0)
         + (IF /\ lines[n].state = "processed"
               /\ batch.transaction_type = "bulk_transfer"
               /\ lines[n].destination_account_id = a
            THEN Abs(lines[n].amount) ELSE 0)

C10_AfterBatch ==
    Finished
    => /\ \A k \in 1..Len(lines) :
             lines[k].state = "processed" => Cardinality(MatchingTxns(k)) = 1
       /\ \A a \in Accts : balance[a] = opening[a] + ProcessedEffect(a, Len(lines))

\* C10: a line that fails leaves every balance as it was before the line; a
\* line that succeeds has one matching posted transaction, and no later line
\* undoes a posted transaction; after the batch every processed line has
\* exactly one matching posted transaction and the balances carry the effect
\* of the processed lines and nothing else.
C10_PerLineAtomicity ==
    [][/\ (batch.state = "processing" /\ batch'.cursor # batch.cursor)
          => /\ lines'[batch.cursor].state = "failed" => balance' = balance
             /\ lines'[batch.cursor].state = "processed"
                => Cardinality(MatchingIn(txns', lines[batch.cursor])) = 1
             /\ \A j \in 1..Len(txns) : txns[j].state = "posted" => txns'[j] = txns[j]
       /\ C10_AfterBatch']_vars

\* A batch of three lines: the second failed for lack of funds, the other two
\* are processed with their posted transactions.
C10_Witness ==
    /\ Finished /\ Len(lines) = 3
    /\ lines[1].state = "processed" /\ lines[2].state = "failed"
    /\ lines[3].state = "processed"
    /\ lines[2].amount # 0
    /\ Cardinality(MatchingTxns(1)) = 1 /\ Cardinality(MatchingTxns(3)) = 1

\* A row of the file lacks a field its batch kind requires or names an account
\* that does not exist.
Offending(bulk_type, row) ==
    \/ MissingFields(bulk_type, row) # {}
    \/ SearchAccount(row.account_number) = NoAcct
    \/ bulk_type = "bulk_transfer" /\ SearchAccount(row.destination_account) = NoAcct

OffendingRows(bulk_type, file) ==
    {k \in 1..Len(file) : Offending(bulk_type, file[k])}

\* C11: an import of a file with a row that lacks a required field or names an
\* account that does not exist fails with an error that names the number of
\* the first such row, creates and removes no line, and leaves the batch
\* state as it was.
C11_ImportAllOrNothing ==
    [][\A file \in Files :
          (/\ ActionImportFile(file)
           /\ OffendingRows(batch.transaction_type, file) # {})
          => /\ lastOp'.result \in {"MissingField", "AccountNotFound"}
             /\ lastOp'.row = Min(OffendingRows(batch.transaction_type, file)) + 1
             /\ lines' = lines
             /\ batch'.state = batch.state]_vars

\* The due orders, as a set of ids.
DueSet == {k \in 1..Len(orders) : DueOrder(orders[k], today)}

\* Order k is the only due order that draws on its source account.
SoleOnSource(k) ==
    \A j \in DueSet : orders[j].source_account_id = orders[k].source_account_id => j = k

\* C12: a cron run over a due active order whose source account has the funds
\* debits the source by the order's amount, advances next_execution_date by
\* one frequency delta and leaves the order active.
C12_OrderSuccess ==
    [][CronProcessStandingOrders
       => \A k \in DueSet :
             (/\ SoleOnSource(k)
              /\ orders[k].amount <= available_balance[orders[k].source_account_id])
             => /\ balance'[orders[k].source_account_id]
                     = balance[orders[k].source_account_id] - orders[k].amount
                /\ orders'[k].next_execution_date
                     = orders[k].next_execution_date + FrequencyDelta(orders[k].frequency)
                /\ orders'[k].state = "active"]_vars

\* What the orders of a run that did not fail drew from account a.
RECURSIVE Drawn(_, _, _)
Drawn(os, ids, a) ==
    IF ids = {} THEN 0
    ELSE LET k == CHOOSE k \in ids : TRUE
         IN  (IF os[k].source_account_id = a THEN os[k].amount ELSE 0)
             + Drawn(os, ids \ {k}, a)

\* C13: in a cron run every due order is attempted; an order whose execution
\* fails is left as it was (active, next_execution_date unchanged, still due)
\* and moves no balance: the balances change by what the other orders drew.
C13_OrderFailure ==
    [][CronProcessStandingOrders
       => /\ lastOp'.attempted = DueSet
          /\ \A k \in lastOp'.failed :
                /\ orders'[k] = orders[k]
                /\ DueOrder(orders'[k], today')
          /\ \A a \in Accts :
                balance'[a]
                  = balance[a] - Drawn(orders, lastOp'.attempted \ lastOp'.failed, a)]_vars

\* A run has just attempted two due orders; the execution of the first
\* failed, on a source account without the funds, and the second was still
\* attempted; both are due again.
C13_Witness ==
    /\ lastOp.op = "_cron_process_standing_orders"
    /\ Cardinality(lastOp.attempted) = 2
    /\ \E k \in lastOp.failed :
          /\ orders[k].amount > available_balance[orders[k].source_account_id]
          /\ \E j \in lastOp.attempted : OrderBefore(orders, k, j)
    /\ \A k \in lastOp.attempted : DueOrder(orders[k], today)

\* C14: deposit, withdraw and action_post on an account that is not active
\* end in InvalidState and change no balance.
C14_InactiveRejected ==
    [][/\ \A a \in Accts, amount \in LifeAmounts :
             ((Deposit(a, amount) \/ Withdraw(a, amount)) /\ acc_state[a] # "active")
             => lastOp'.result = "InvalidState" /\ balance' = balance
       /\ \A i \in 1..Len(txns) :
             (/\ ActionPost(i) /\ Postable(txns[i])
              /\ acc_state[txns[i].account_id] # "active")
             => lastOp'.result = "InvalidState" /\ balance' = balance]_vars

\* C15: an account in state closed has balance 0.
C15_ClosedIsEmpty == \A a \in Accts : acc_state[a] = "closed" => balance[a] = 0

\* C16: action_post of a draft or pending transaction with a negative amount
\* larger than the source account's available_balance ends in
\* InsufficientFunds and changes nothing: the transaction keeps its state and
\* no balance, of the source or of the destination, moves.
C16_PostAllOrNothing ==
    [][\A i \in 1..Len(txns) :
          (/\ ActionPost(i) /\ Postable(txns[i])
           /\ txns[i].amount < 0
           /\ Abs(txns[i].amount) > available_balance[txns[i].account_id])
          => /\ lastOp'.result = "InsufficientFunds"
             /\ txns' = txns
             /\ balance' = balance
             /\ available_balance' = available_balance]_vars

\* The post of a draft transfer of 100 from A to B has just failed: A holds
\* only 50 and is on hold for all of it, the transfer is still draft and B
\* has received nothing.
C16_Witness ==
    /\ lastOp.op = "action_post" /\ lastOp.result = "InsufficientFunds"
    /\ lastOp.txn # NoTxn
    /\ txns[lastOp.txn].transaction_type = "transfer"
    /\ txns[lastOp.txn].destination_account_id = "B"
    /\ txns[lastOp.txn].amount = -100 /\ txns[lastOp.txn].state = "draft"
    /\ balance["A"] = 50 /\ hold_amount["A"] = 50 /\ balance["B"] = 0

\* C17: deposit(amount) and withdraw(amount) with amount <= 0 end in
\* InvalidAmount, create no transaction and change no balance; a deposit that
\* succeeds appends exactly one transaction, posted, with amount +amount, and
\* raises the balance by amount; a withdraw that succeeds appends exactly one,
\* posted, with amount -amount, and lowers the balance by amount.
C17_DepositWithdraw ==
    [][\A a \in Accts, amount \in CallAmounts :
          /\ (Deposit(a, amount) \/ Withdraw(a, amount)) /\ amount <= 0
             => /\ lastOp'.result = "InvalidAmount"
                /\ txns' = txns /\ balance' = balance
          /\ Deposit(a, amount) /\ amount > 0
             => /\ lastOp'.result = "ok"
                /\ txns' = Append(txns, txns'[Len(txns')])
                /\ txns'[Len(txns')].state = "posted"
                /\ txns'[Len(txns')].amount = amount
                /\ txns'[Len(txns')].account_id = a
                /\ balance' = [balance EXCEPT ![a] = @ + amount]
          /\ Withdraw(a, amount) /\ lastOp'.result = "ok"
             => /\ txns' = Append(txns, txns'[Len(txns')])
                /\ txns'[Len(txns')].state = "posted"
                /\ txns'[Len(txns')].amount = -amount
                /\ txns'[Len(txns')].account_id = a
                /\ balance' = [balance EXCEPT ![a] = @ - amount]]_vars

\* A deposit of 100 and a withdrawal of 50 have left their two posted
\* transactions and balance 50; a deposit of -50 has just been refused.
C17_Witness ==
    /\ lastOp = Call("deposit", "A", NoTxn, -50, "InvalidAmount", 50)
    /\ Len(txns) = 2 /\ balance["A"] = 50
    /\ txns[1].transaction_type = "deposit" /\ txns[1].amount = 100
    /\ txns[1].state = "posted"
    /\ txns[2].transaction_type = "withdrawal" /\ txns[2].amount = -50
    /\ txns[2].state = "posted"

\* C18: once a loan has payment rows they are never generated again:
\* generate_payment_schedule, called directly or by action_disburse, ends in
\* ScheduleAlreadyExists, and the rows stay as they are.
C18_ScheduleOnce ==
    [][loan.payment_ids # <<>>
       => /\ loan'.payment_ids = loan.payment_ids
          /\ (GeneratePaymentSchedule \/ LoanDisburse)
             => lastOp'.result = "ScheduleAlreadyExists"]_vars

\* A loan was disbursed with a schedule of several rows, and a further
\* generate_payment_schedule has just been refused.
C18_Witness ==
    /\ lastOp = LoanCall("generate_payment_schedule", "ScheduleAlreadyExists")
    /\ loan.state = "disbursed" /\ Len(loan.payment_ids) >= 2
    /\ \A i \in 1..Len(loan.payment_ids) : loan.payment_ids[i].payment_number = i

\* C19: a loan with principal P > 0, term n > 0 and annual rate 0 has the
\* EMI P/n.
C19_ZeroRateEmi ==
    (loan.principal_amount > 0 /\ loan.term_months > 0 /\ loan.interest_rate = 0)
    => loan.emi_amount = Frac(loan.principal_amount, loan.term_months)

\* Sum of the principal_amount of the rows 1..n.
RECURSIVE SumPrincipal(_, _)
SumPrincipal(rows, n) ==
    IF n = 0 THEN FZero ELSE FAdd(SumPrincipal(rows, n - 1), rows[n].principal_amount)

\* C20: the principal_amount of the rows of a generated schedule add up to the
\* loan's principal_amount.
C20_PrincipalSum ==
    loan.payment_ids # <<>>
    => SumPrincipal(loan.payment_ids, Len(loan.payment_ids)) = FInt(loan.principal_amount)

\* The gross amount of an early withdrawal called with withdrawal_amount w.
GrossAmount(w) == IF w # 0 THEN FInt(w) ELSE fixed_deposit.current_value

\* The net amount of that withdrawal under the deposit's penalty rate.
NetAmount(w) ==
    FSub(GrossAmount(w),
         FDiv(FMul(GrossAmount(w), FInt(fixed_deposit.early_withdrawal_penalty_rate)),
              FInt(100)))

\* The call returned the amounts of the withdrawal of w and credited the net
\* amount to the linked account, and the deposit is withdrawn.
EarlyWithdrawalDone(w) ==
    /\ lastOp'.result = "ok"
    /\ lastOp'.gross_amount = GrossAmount(w)
    /\ FMul(lastOp'.penalty, FInt(100))
         = FMul(lastOp'.gross_amount, FInt(fixed_deposit.early_withdrawal_penalty_rate))
    /\ lastOp'.net_amount = FSub(lastOp'.gross_amount, lastOp'.penalty)
    /\ FAdd(lastOp'.penalty, lastOp'.net_amount) = lastOp'.gross_amount
    /\ balance' = [balance EXCEPT ![fixed_deposit.account_id] = @ + Units(lastOp'.net_amount)]
    /\ FInt(Units(lastOp'.net_amount)) = lastOp'.net_amount
    /\ Len(txns') = Len(txns) + 1
    /\ txns'[Len(txns')].transaction_type = "deposit"
    /\ fixed_deposit'.state = "withdrawn"

\* C21 as stated: action_withdraw_early on an active deposit that allows early
\* withdrawal returns gross_amount, penalty = gross_amount * penalty_rate / 100
\* and net_amount = gross_amount - penalty, credits exactly net_amount to the
\* linked account through Account.deposit and sets the deposit to withdrawn.
C21_EarlyWithdrawal ==
    [][\A w \in WithdrawalAmounts :
          (/\ DepositWithdrawEarly(w)
           /\ fixed_deposit.state = "active" /\ fixed_deposit.allow_early_withdrawal)
          => EarlyWithdrawalDone(w)]_vars

\* C21 amended: it does so when the net amount is positive; when the net
\* amount is zero or negative Account.deposit refuses the credit, the call
\* fails with that error, no balance changes and the deposit stays active.
C21_EarlyWithdrawalPositive ==
    [][\A w \in WithdrawalAmounts :
          (/\ DepositWithdrawEarly(w)
           /\ fixed_deposit.state = "active" /\ fixed_deposit.allow_early_withdrawal)
          => IF FLess(FZero, NetAmount(w))
             THEN EarlyWithdrawalDone(w)
             ELSE /\ lastOp'.result = "InvalidAmount"
                  /\ balance' = balance /\ txns' = txns
                  /\ fixed_deposit' = fixed_deposit]_vars

\* A deposit of 100 with the default penalty of 1% has just been withdrawn
\* early: gross 100, penalty 1, net 99 credited to account A.
C21_Witness ==
    /\ lastOp.op = "action_withdraw_early" /\ lastOp.result = "ok"
    /\ lastOp.gross_amount = FInt(100) /\ lastOp.penalty = FInt(1)
    /\ lastOp.net_amount = FInt(99)
    /\ balance["A"] = 99 /\ fixed_deposit.state = "withdrawn"

\* C22: action_reverse on a transaction that is already reversed or is not
\* posted ends in AlreadyReversed or InvalidState, and action_post and
\* action_cancel on a transaction that is not draft or pending end in
\* InvalidState: none of them returns normally with nothing done.
C22_ForbiddenReported ==
    [][\A i \in 1..Len(txns) :
          /\ (ActionReverse(i) /\ ~Reversible(txns[i]))
             => lastOp'.result
                  = IF txns[i].reversal_id # NoTxn \/ txns[i].state = "reversed"
                    THEN "AlreadyReversed" ELSE "InvalidState"
          /\ ((ActionPost(i) \/ ActionCancel(i)) /\ ~Postable(txns[i]))
             => lastOp'.result = "InvalidState"]_vars

\* C23: in every state the stored available_balance of every account is
\* balance + overdraft_limit - hold_amount when allow_overdraft is set and
\* max(0, balance - hold_amount) otherwise.
C23_AvailableDerived ==
    \A a \in Accts :
        available_balance[a]
          = IF allow_overdraft[a] THEN balance[a] + overdraft_limit[a] - hold_amount[a]
            ELSE Max(0, balance[a] - hold_amount[a])

\* C24: action_reverse on a reversal (a transaction with reversed_entry_id
\* set) creates no transaction, and no transaction ever has both
\* reversed_entry_id and reversal_id set.
C24_NoReversalOfReversal ==
    [][/\ \A i \in 1..Len(txns) :
             (ActionReverse(i) /\ txns[i].reversed_entry_id # NoTxn) => txns' = txns
       /\ \A j \in 1..Len(txns') :
             txns'[j].reversed_entry_id = NoTxn \/ txns'[j].reversal_id = NoTxn]_vars

\* What the first n transactions of table ts that have reached the posted
\* state add to account a: their amount on their own account, and the
\* absolute amount of a transfer on its destination.
RECURSIVE LedgerEffect(_, _, _)
LedgerEffect(ts, a, n) ==
    IF n = 0 THEN 0
    ELSE LedgerEffect(ts, a, n - 1)
         + (IF /\ ts[n].state \in {"posted", "reconciled", "reversed"}
               /\ ts[n].account_id = a
            THEN ts[n].amount ELSE 0)
         + (IF /\ ts[n].state \in {"posted", "reconciled", "reversed"}
               /\ ts[n].destination_account_id = a
            THEN Abs(ts[n].amount) ELSE 0)

\* C25: each account's balance is its opening balance plus the amounts of
\* all its transactions that are posted, reconciled or reversed, plus the
\* absolute amounts of such transfers naming it as destination.
C25_LedgerConsistency ==
    \A a \in Accts : balance[a] = opening[a] + LedgerEffect(txns, a, Len(txns))

\* The transactions that a step brings to state posted as transfers with a
\* destination account (created by the step or posted from draft or pending).
PostedTransfers ==
    {i \in 1..Len(txns') :
        /\ txns'[i].transaction_type = "transfer"
        /\ txns'[i].destination_account_id # NoAcct
        /\ txns'[i].state = "posted"
        /\ (i > Len(txns) \/ txns[i].state \in {"draft", "pending"})}

\* C26: a step that posts a transfer with a destination account leaves the
\* sum of the source and destination balances as it was.
C26_TransferConserves ==
    [][\A i \in PostedTransfers :
          balance'[txns'[i].account_id] + balance'[txns'[i].destination_account_id]
          = balance[txns'[i].account_id] + balance[txns'[i].destination_account_id]]_vars

\* C27: action_post on a transaction that is already posted, reconciled,
\* reversed or cancelled changes no balance and no transaction; a call of
\* action_post that changes a balance moves its transaction from draft or
\* pending to posted, and no step brings a transaction back to draft or
\* pending, so an amount is applied at most once.
C27_PostAtMostOnce ==
    [][/\ \A i \in 1..Len(txns) :
             ActionPost(i) =>
                /\ ~Postable(txns[i]) =>
                      /\ balance' = balance
                      /\ available_balance' = available_balance
                      /\ txns' = txns
                /\ balance' # balance =>
                      Postable(txns[i]) /\ txns'[i].state = "posted"
       /\ \A i \in 1..Len(txns) :
             Postable(txns'[i]) => txns'[i].state = txns[i].state]_vars

\* The only transaction, a credit, was posted once, and action_post was
\* called on it again.
C27_Witness ==
    /\ Len(txns) = 1
    /\ txns[1].state = "posted"
    /\ lastOp.op = "action_post" /\ lastOp.result = "noop"
    /\ balance[txns[1].account_id] = opening[txns[1].account_id] + txns[1].amount

\* C28: closed is terminal for accounts: no step moves a closed account to
\* another state.
C28_ClosedTerminal ==
    [][\A a \in Accts : acc_state[a] = "closed" => acc_state'[a] = "closed"]_vars

\* C29: action_cancel and action_reconcile change no balance; action_cancel
\* on a draft or pending transaction changes only that transaction's state,
\* to cancelled, and on any other transaction changes nothing.
C29_CancelAndReconcile ==
    [][/\ \A i \in 1..Len(txns) :
             ActionCancel(i) =>
                /\ balance' = balance /\ available_balance' = available_balance
                /\ txns' = IF txns[i].state \in {"draft", "pending"}
                           THEN [txns EXCEPT ![i].state = "cancelled"]
                           ELSE txns
       /\ ActionReconcile =>
             balance' = balance /\ available_balance' = available_balance]_vars

\* A posted credit was reconciled and a second transaction cancelled from
\* draft or pending; the balance is that of the one credit.
C29_Witness ==
    /\ Len(txns) = 2
    /\ txns[1].state = "reconciled" /\ txns[1].amount > 0
    /\ txns[2].state = "cancelled"
    /\ lastOp.op = "action_cancel" /\ lastOp.result = "ok" /\ lastOp.txn = 2
    /\ balance[txns[1].account_id] = opening[txns[1].account_id] + txns[1].amount

\* The orders a run is to execute: active, next_execution_date set and not
\* after today, end_date unset or not before today.
ToExecute ==
    {k \in 1..Len(orders) :
        /\ orders[k].state = "active"
        /\ orders[k].next_execution_date \in 0..today
        /\ (orders[k].end_date = NoDate \/ orders[k].end_date >= today)}

\* C30: a cron run attempts only the orders it is to execute; every other
\* order (draft, cancelled, not yet due, past its end date) is left as it
\* was, next_execution_date included, and a run with nothing to execute
\* changes no balance and creates no transaction.
C30_OnlyDueOrders ==
    [][CronProcessStandingOrders
       => /\ lastOp'.attempted \subseteq ToExecute
          /\ \A k \in (1..Len(orders)) \ ToExecute : orders'[k] = orders[k]
          /\ ToExecute = {} =>
                /\ balance' = balance /\ available_balance' = available_balance
                /\ txns' = txns]_vars

\* A run has just attempted one order and passed over another that is
\* active and past its end date.
C30_Witness ==
    /\ lastOp.op = "_cron_process_standing_orders"
    /\ lastOp.attempted # {}
    /\ \E k \in (1..Len(orders)) \ lastOp.attempted :
          /\ orders[k].state = "active"
          /\ orders[k].next_execution_date <= today
          /\ orders[k].end_date # NoDate /\ orders[k].end_date < today

\* The calendar: year, month and day of a date, and the date of a day.
IsLeapYear(y) == (y % 4 = 0 /\ y % 100 # 0) \/ y % 400 = 0

DaysInMonth(y, m) ==
    IF m = 2 THEN (IF IsLeapYear(y) THEN 29 ELSE 28)
    ELSE IF m \in {4, 6, 9, 11} THEN 30 ELSE 31

DaysBeforeYear(y) ==
    365 * (y - 2023) + Cardinality({x \in 2023..(y - 1) : IsLeapYear(x)})

DaysBeforeMonth(y, m) ==
    <<0, 31, 59, 90, 120, 151, 181, 212, 243, 273, 304, 334>>[m]
    + (IF m > 2 /\ IsLeapYear(y) THEN 1 ELSE 0)

ToDate(y, m, d) == DaysBeforeYear(y) + DaysBeforeMonth(y, m) + d - 1

YearOf(date) ==
    CHOOSE y \in 2023..2030 : DaysBeforeYear(y) <= date /\ date < DaysBeforeYear(y + 1)

MonthOf(date) ==
    LET y == YearOf(date)
    IN  CHOOSE m \in 1..12 :
           /\ ToDate(y, m, 1) <= date
           /\ date <= ToDate(y, m, DaysInMonth(y, m))

DayOf(date) == date - ToDate(YearOf(date), MonthOf(date), 1) + 1

\* The date n calendar months after a date, on the same day of the month or
\* on the last day of a shorter month.
AddMonths(date, n) ==
    LET total == (MonthOf(date) - 1) + n
        y == YearOf(date) + total \div 12
        m == (total % 12) + 1
        d == IF DayOf(date) <= DaysInMonth(y, m) THEN DayOf(date) ELSE DaysInMonth(y, m)
    IN  ToDate(y, m, d)

\* The date an order of a frequency is due next after `date`.
CalendarNext(frequency, date) ==
    CASE frequency = "daily"     -> date + 1
      [] frequency = "weekly"    -> date + 7
      [] frequency = "monthly"   -> AddMonths(date, 1)
      [] frequency = "quarterly" -> AddMonths(date, 3)
      [] frequency = "yearly"    -> AddMonths(date, 12)

\* C31: re-arming an order moves next_execution_date by one day for daily,
\* seven days for weekly, and one calendar month, quarter or year for
\* monthly, quarterly and yearly orders.
C31_CalendarAdvance ==
    [][\A k \in 1..Len(orders) :
          OrderScheduleNext(k)
          => orders'[k].next_execution_date
               = CalendarNext(orders[k].frequency, orders[k].next_execution_date)]_vars

\* C32: a cron run over a single due order whose source account has the
\* funds moves the order's amount from the source to the destination
\* account: the destination rises by what the source falls.
C32_OrderReachesDestination ==
    [][CronProcessStandingOrders
       => \A k \in DueSet :
             (/\ DueSet = {k}
              /\ orders[k].amount <= available_balance[orders[k].source_account_id])
             => /\ balance'[orders[k].source_account_id]
                     = balance[orders[k].source_account_id] - orders[k].amount
                /\ balance'[orders[k].destination_account_id]
                     = balance[orders[k].destination_account_id] + orders[k].amount]_vars

\* The posted transactions of table ts.
PostedIn(ts) == {i \in 1..Len(ts) : ts[i].state = "posted"}

\* C33: action_process_now on a record that is not scheduled fails and
\* changes nothing; on a scheduled record it ends in failed, or in processed
\* with transaction_id naming the one transaction it created and posted. The
\* cron leaves every record that is not scheduled as it was. So every posted
\* transaction belongs to exactly one processed record.
C33_ScheduledOnce ==
    [][/\ \A k \in 1..Len(scheduled) :
             ScheduledProcessNow(k) =>
                IF scheduled[k].state # "scheduled"
                THEN /\ lastOp'.result = "InvalidState"
                     /\ scheduled' = scheduled /\ txns' = txns /\ balance' = balance
                ELSE \/ /\ scheduled'[k].state = "failed"
                        /\ scheduled'[k].transaction_id = NoTxn
                        /\ PostedIn(txns') = PostedIn(txns)
                     \/ /\ scheduled'[k].state = "processed"
                        /\ scheduled'[k].transaction_id = Len(txns) + 1
                        /\ PostedIn(txns') = PostedIn(txns) \cup {Len(txns) + 1}
       /\ CronProcessScheduled =>
             \A k \in 1..Len(scheduled) :
                scheduled[k].state # "scheduled" => scheduled'[k] = scheduled[k]
       /\ \A i \in PostedIn(txns') :
             Cardinality({k \in 1..Len(scheduled') :
                             /\ scheduled'[k].state = "processed"
                             /\ scheduled'[k].transaction_id = i}) = 1
       /\ \A k \in 1..Len(scheduled') :
             scheduled'[k].state = "processed"
             => scheduled'[k].transaction_id \in PostedIn(txns')]_vars

\* A processed record that the cron's search would still match by date and
\* auto_process, whose one transaction is posted, has just been processed
\* by hand again.
C33_Witness ==
    /\ lastOp.op = "action_process_now" /\ lastOp.result = "InvalidState"
    /\ scheduled[lastOp.amount].state = "processed"
    /\ scheduled[lastOp.amount].auto_process
    /\ scheduled[lastOp.amount].scheduled_date <= today
    /\ PostedIn(txns) = {scheduled[lastOp.amount].transaction_id}

OutstandingAfter(n) ==
    FSub(FInt(loan.principal_amount), SumPrincipal(loan.payment_ids, n))

\* C35: in a generated schedule the outstanding principal is never negative
\* after a row, every row's principal_amount is at most what was outstanding
\* before it, the outstanding principal is positive before every row (no row
\* follows one that brought it to 0), there are at most term_months \div
\* months-per-installment rows, and the rows are numbered 1, 2, ...
C35_ScheduleShape ==
    LET rows == loan.payment_ids
    IN  /\ \A n \in 1..Len(rows) :
              /\ ~FLess(OutstandingAfter(n), FZero)
              /\ ~FLess(OutstandingAfter(n - 1), rows[n].principal_amount)
              /\ FLess(FZero, OutstandingAfter(n - 1))
              /\ rows[n].payment_number = n
        /\ Len(rows) <= loan.term_months \div FrequencyMonths(loan.payment_frequency)

\* A schedule of six monthly rows whose last row brings the outstanding
\* principal to 0.
C35_Witness ==
    /\ loan.payment_frequency = "monthly" /\ Len(loan.payment_ids) = 6
    /\ FLess(FZero, OutstandingAfter(5))
    /\ OutstandingAfter(6) = FZero

\* C36: every transaction in state posted, reconciled or reversed carries
\* the stamp of its posting (posted_by and posted_date, written together).
C36_PosterStamped ==
    \A i \in 1..Len(txns) :
       txns[i].state \in {"posted", "reconciled", "reversed"} => txns[i].posted_by

\* C37: action_mature and action_withdraw_early on a deposit that is not
\* active, and action_withdraw_early on one that does not allow it, fail and
\* change neither a balance nor the deposit; action_mature on an active
\* deposit credits maturity_amount and leaves the deposit matured; a balance
\* moves only in a step that takes the deposit out of state active, so the
\* two calls credit at most once.
C37_DepositCreditsOnce ==
    [][/\ DepositMature =>
             IF fixed_deposit.state # "active"
             THEN /\ lastOp'.result # "ok"
                  /\ balance' = balance /\ txns' = txns
                  /\ fixed_deposit' = fixed_deposit
             ELSE /\ lastOp'.result = "ok"
                  /\ fixed_deposit'.state = "matured"
                  /\ balance'[fixed_deposit.account_id]
                       = balance[fixed_deposit.account_id]
                         + Units(fixed_deposit.maturity_amount)
       /\ \A w \in WithdrawalAmounts :
             (/\ DepositWithdrawEarly(w)
              /\ (fixed_deposit.state # "active" \/ ~fixed_deposit.allow_early_withdrawal))
             => /\ lastOp'.result # "ok"
                /\ balance' = balance /\ txns' = txns
                /\ fixed_deposit' = fixed_deposit
       /\ balance' # balance =>
             /\ fixed_deposit.state = "active"
             /\ fixed_deposit'.state \in {"matured", "withdrawn"}]_vars

\* C38: whatever withdrawal_amount is passed, action_withdraw_early credits
\* the linked account with no more than the deposit's current_value.
C38_WithdrawalCapped ==
    [][\A w \in WithdrawalAmounts :
          DepositWithdrawEarly(w)
          => ~FLess(fixed_deposit.current_value,
                    FInt(balance'[fixed_deposit.account_id]
                         - balance[fixed_deposit.account_id]))]_vars

\* C39: a simple-interest deposit with principal P > 0, a term of months > 0
\* and an annual rate of r >= 0 percent has the maturity amount
\* P * (1 + r/100 * months/12); at r = 0 that is P.
C39_SimpleMaturity ==
    (/\ fixed_deposit.interest_compounding = "simple"
     /\ fixed_deposit.principal_amount > 0
     /\ fixed_deposit.term_months > 0
     /\ fixed_deposit.interest_rate >= 0)
    => fixed_deposit.maturity_amount
         = FMul(FInt(fixed_deposit.principal_amount),
                FAdd(FOne, FMul(Frac(fixed_deposit.interest_rate, 100),
                                Frac(fixed_deposit.term_months, 12))))

\* C40: paid_amount never exceeds total_amount; action_record_payment with
\* amount <= 0 or amount > outstanding_amount fails, leaves the row as it was
\* and creates no transaction; after an accepted payment the row is paid
\* exactly when paid_amount >= total_amount, and partial otherwise.
C40_PaymentRecorded ==
    [][\A k \in 1..Len(loan.payment_ids), amount \in PaymentAmounts :
          RecordPayment(k, amount) =>
             LET p == loan.payment_ids[k]
                 q == loan'.payment_ids[k]
             IN  /\ ~FLess(q.total_amount, q.paid_amount)
                 /\ IF amount <= 0 \/ FLess(FSub(p.total_amount, p.paid_amount), FInt(amount))
                    THEN lastOp'.result # "ok" /\ q = p /\ txns' = txns
                    ELSE /\ lastOp'.result = "ok"
                         /\ q.paid_amount = FAdd(p.paid_amount, FInt(amount))
                         /\ q.state = IF ~FLess(q.paid_amount, q.total_amount)
                                      THEN "paid" ELSE "partial"]_vars

=============================================================================
